---- MODULE Spec2Model ----
(***************************************************************************)
(* Shopping cart of lms/djangoapps/shoppingcart/models.py: the Order /     *)
(* OrderItem lifecycle, the per-variant fulfillment callbacks and the       *)
(* registration-code redemption ledger, as a state machine over the tables  *)
(* of the database.                                                         *)
(*                                                                          *)
(* Conventions.  A table is a sequence, the primary key of a row is its     *)
(* index; a deleted row leaves the tombstone NoRow, so that keys are never  *)
(* reused (autoincrement).  A queryset without ORDER BY is read in key      *)
(* order.  A timestamp is 0 (NULL) or 1 (set).  Money is in whole cents.    *)
(* NULL is NoneVal for a decimal column and 0 for a foreign key.            *)
(*                                                                          *)
(* Transactions.  A save() outside a commit_on_success block is committed   *)
(* at once; a commit_on_success block commits its writes when it returns    *)
(* and rolls them back when it raises.                                      *)
(***************************************************************************)
EXTENDS Integers, Sequences, FiniteSets, TLC

\* ------------------------------------------------------------------------
\* Bounds of the model
\* ------------------------------------------------------------------------
MaxOrders == 2
MaxItems == 2
MaxCodes == 1
MaxRedemptions == 2
MaxCallbackRuns == 2

Users == {"u1", "u2"}
Courses == {"c1", "c2"}
Procs == {"p1", "p2"}

NoneVal == -1

\* ORDER_STATUSES, models.py 48-62
ORDER_STATUSES == {"cart", "paying", "purchased", "refunded"}

\* OrderTypes, models.py 68-78
PERSONAL == "personal"
BUSINESS == "business"

\* kinds of OrderItem (the subclass a row belongs to)
SEAT == "paidcourseregistration"
BUNDLE == "courseregcodeitem"
CERT == "certificateitem"
DONATION == "donation"

NoRow == [deleted |-> TRUE]

\* ------------------------------------------------------------------------
\* State
\* ------------------------------------------------------------------------
VARIABLES
    orders,          \* table Order
    items,           \* table OrderItem (with its subclass columns)
    codes,           \* table CourseRegistrationCode
    regRedemptions,  \* table RegistrationCodeRedemption
    couponRedemptions,  \* table CouponRedemption
    outbox,          \* the orders a confirmation e-mail was sent for
    enroll,          \* CourseEnrollment of each (user, course)
    courses,         \* the courses the modulestore holds
    cbRuns,          \* per item, how often purchased_callback has run
    last,            \* the last call made and how it ended
    pc,              \* per request in flight: the statement it is at
    loc              \* per request in flight: its local variables

dbvars == <<orders, items, codes, regRedemptions, couponRedemptions, outbox, enroll,
            courses, cbRuns>>
procvars == <<pc, loc>>
vars == <<orders, items, codes, regRedemptions, couponRedemptions, outbox, enroll, courses,
          cbRuns, last, pc, loc>>

\* The database as one value, for the operators that compute an operation.
DB ==
    [orders |-> orders, items |-> items, codes |-> codes,
     regRedemptions |-> regRedemptions,
     couponRedemptions |-> couponRedemptions, outbox |-> outbox,
     enroll |-> enroll,
     courses |-> courses, cbRuns |-> cbRuns]

Commit(d) ==
    /\ orders' = d.orders
    /\ items' = d.items
    /\ codes' = d.codes
    /\ regRedemptions' = d.regRedemptions
    /\ couponRedemptions' = d.couponRedemptions
    /\ outbox' = d.outbox
    /\ enroll' = d.enroll
    /\ courses' = d.courses
    /\ cbRuns' = d.cbRuns

\* ------------------------------------------------------------------------
\* Rows
\* ------------------------------------------------------------------------
\* Order(), models.py 87-114: the column defaults
NewOrder(u) ==
    [user |-> u, status |-> "cart", currency |-> "usd",
     order_type |-> PERSONAL, purchase_time |-> 0,
     bill_to_name |-> "", bill_to_city |-> "", bill_to_street |-> "",
     bill_to_card |-> "", processor_reply_dump |-> ""]

\* OrderItem(), models.py 434-448 and the subclass columns: the defaults
NewItem(o, u, kind, course) ==
    [deleted |-> FALSE, order |-> o, user |-> u, kind |-> kind,
     course_id |-> course, status |-> "cart", qty |-> 1, unit_cost |-> 0,
     list_price |-> NoneVal, currency |-> "usd", mode |-> "honor",
     fulfilled_time |-> 0, refund_requested_time |-> 0]

NoEnrollment == [exists |-> FALSE, is_active |-> FALSE, mode |-> "honor"]

OrderIds(d) == 1..Len(d.orders)
ItemIds(d) == {i \in 1..Len(d.items) : ~d.items[i].deleted}
LiveItems == ItemIds(DB)

\* order.orderitem_set.all() / OrderItem.objects.filter(order=...): the keys
\* of the items of order o
ItemsOf(d, o) == {i \in ItemIds(d) : d.items[i].order = o}

\* a set of keys as the sequence a queryset yields them in
RECURSIVE SortedSeq(_)
SortedSeq(S) ==
    IF S = {} THEN <<>>
    ELSE LET m == CHOOSE x \in S : \A y \in S : x <= y
         IN <<m>> \o SortedSeq(S \ {m})

Min(a, b) == IF a < b THEN a ELSE b

\* An operation ends with the database it leaves and "ok" or the exception
\* it raised.
Ok(d) == [db |-> d, err |-> "ok"]
Raise(d, e) == [db |-> d, err |-> e]

\* r, then F on the database r left, unless r raised
Then(r, F(_)) == IF r.err # "ok" THEN r ELSE F(r.db)

\* a block under commit_on_success, entered with database d: what it raises
\* is raised with its writes rolled back
Atomic(d, r) == IF r.err # "ok" THEN Raise(d, r.err) ELSE r

\* ------------------------------------------------------------------------
\* Collaborators outside models.py
\* ------------------------------------------------------------------------
\* CourseMode.mode_for_course / modes_for_course_dict: the modes configured
\* for a course, each with its minimum price and currency.
ModeSlugs == {"honor", "verified"}
DEFAULT_MODE == [slug |-> "honor", min_price |-> 0, currency |-> "usd"]
ModesForCourse(c) ==
    IF c = "c1"
    THEN {[slug |-> "honor", min_price |-> 5000, currency |-> "usd"],
          [slug |-> "verified", min_price |-> 3000, currency |-> "usd"]}
    ELSE {[slug |-> "verified", min_price |-> 1000, currency |-> "usd"]}

ModeForCourse(c, slug) ==
    IF \E m \in ModesForCourse(c) : m.slug = slug
    THEN CHOOSE m \in ModesForCourse(c) : m.slug = slug
    ELSE DEFAULT_MODE

\* modulestore().get_course / has_course
CourseExists(d, c) == c \in d.courses

\* CourseEnrollment.is_enrolled
IsEnrolled(d, u, c) == d.enroll[u][c].exists /\ d.enroll[u][c].is_active

\* mutant: an enrollment that is recorded and left inactive
EnrollUser_inactive(d, u, c, mode) ==
    [d EXCEPT !.enroll[u][c] = [exists |-> TRUE, is_active |-> FALSE, mode |-> mode]]

\* CourseEnrollment.enroll(user, course_key, mode)
EnrollUser(d, u, c, mode) ==
    [d EXCEPT !.enroll[u][c] = [exists |-> TRUE, is_active |-> TRUE, mode |-> mode]]

\* CourseEnrollment.get_or_create_enrollment(user, course_key)
GetOrCreateEnrollment(d, u, c) ==
    IF d.enroll[u][c].exists THEN d
    ELSE [d EXCEPT !.enroll[u][c] = [exists |-> TRUE, is_active |-> FALSE, mode |-> "honor"]]

\* course_enrollment.change_mode(mode); course_enrollment.activate()
ChangeModeAndActivate(d, u, c, mode) ==
    [d EXCEPT !.enroll[u][c] = [exists |-> TRUE, is_active |-> TRUE, mode |-> mode]]

\* instructor.views.api.save_registration_code(user, course_id, invoice, order):
\* one new CourseRegistrationCode with a code value no other row has (the key)
SaveRegistrationCode(d, u, c, invoice, o) ==
    [d EXCEPT !.codes = Append(@, [course_id |-> c, created_by |-> u,
                                   order |-> o, invoice |-> invoice])]

\* ------------------------------------------------------------------------
\* OrderItem and its variants
\* ------------------------------------------------------------------------
\* OrderItem.line_cost, models.py 450-453
line_cost(it) == it.qty * it.unit_cost

\* OrderItem.add_to_order, models.py 455-468: TRUE when the currency check
\* raises InvalidCartItem
CurrencyMismatch(d, o, currency) ==
    d.orders[o].currency # currency /\ ItemsOf(d, o) # {}

\* mutant: the factory does not look for the course in the order
contained_in_order_never(d, kind, o, c) == FALSE

\* contained_in_order of PaidCourseRegistration (750-759) and of
\* CourseRegCodeItem (876-885)
contained_in_order(d, kind, o, c) ==
    \E i \in ItemsOf(d, o) : d.items[i].kind = kind /\ d.items[i].course_id = c

\* cls.objects.get_or_create(order=order, user=order.user, course_id=course_id)
\* on the rows of one subclass: the key of the row, and the table with it
GetOrCreateItem(d, kind, o, c) ==
    LET u == d.orders[o].user
        found == {i \in ItemIds(d) : /\ d.items[i].kind = kind
                                     /\ d.items[i].order = o
                                     /\ d.items[i].user = u
                                     /\ d.items[i].course_id = c}
    IN IF found # {}
       THEN [db |-> d, id |-> CHOOSE i \in found : \A j \in found : i <= j]
       ELSE [db |-> [d EXCEPT !.items = Append(@, NewItem(o, u, kind, c)),
                              !.cbRuns = Append(@, 0)],
             id |-> Len(d.items) + 1]

\* The body shared by PaidCourseRegistration.add_to_order (774-828) and
\* CourseRegCodeItem.add_to_order (900-954); cost and currency NoneVal / ""
\* stand for the arguments left out.  commit_on_success: an exception leaves
\* the database as it was.
CourseItemAddToOrder(d, kind, o, c, qty, mode_slug, cost, currency) ==
    IF ~CourseExists(d, c) THEN Raise(d, "CourseDoesNotExistException")
    ELSE IF contained_in_order(d, kind, o, c) THEN Raise(d, "ItemAlreadyInCartException")
    ELSE IF IsEnrolled(d, d.orders[o].user, c) THEN Raise(d, "AlreadyEnrolledInCourseException")
    ELSE
      LET course_mode == ModeForCourse(c, mode_slug)
          cost2 == IF cost = NoneVal \/ cost = 0 THEN course_mode.min_price ELSE cost
          cur2 == IF currency = "" THEN course_mode.currency ELSE currency
      IN IF CurrencyMismatch(d, o, cur2) THEN Raise(d, "InvalidCartItem")
         ELSE
           LET g == GetOrCreateItem(d, kind, o, c)
           IN Ok([g.db EXCEPT !.items[g.id] =
                                  [@ EXCEPT !.status = d.orders[o].status,
                                            !.mode = course_mode.slug,
                                            !.qty = qty,
                                            !.unit_cost = cost2,
                                            !.currency = cur2],
                              !.orders[o].currency = cur2])

\* PaidCourseRegistration.add_to_order, models.py 774-828
SeatAddToOrder(d, o, c, mode_slug, cost, currency) ==
    CourseItemAddToOrder(d, SEAT, o, c, 1, mode_slug, cost, currency)

\* CourseRegCodeItem.add_to_order, models.py 900-954
BundleAddToOrder(d, o, c, qty, mode_slug, cost, currency) ==
    CourseItemAddToOrder(d, BUNDLE, o, c, qty, mode_slug, cost, currency)

\* CertificateItem.add_to_order, models.py 1076-1128.  The enrollment row is
\* created inside the commit_on_success block, so an invalid mode rolls it
\* back with the rest.
CertAddToOrder(d, o, c, cost, mode, currency) ==
    IF CurrencyMismatch(d, o, currency) THEN Raise(d, "InvalidCartItem")
    ELSE IF ~\E m \in ModesForCourse(c) : m.slug = mode THEN Raise(d, "InvalidCartItem")
    ELSE
      LET u == d.orders[o].user
          d1 == GetOrCreateEnrollment(d, u, c)
          found == {i \in ItemIds(d1) : /\ d1.items[i].kind = CERT
                                        /\ d1.items[i].order = o
                                        /\ d1.items[i].user = u
                                        /\ d1.items[i].course_id = c
                                        /\ d1.items[i].mode = mode}
          id == IF found # {} THEN CHOOSE i \in found : \A j \in found : i <= j
                ELSE Len(d1.items) + 1
          d2 == IF found # {} THEN d1
                ELSE [d1 EXCEPT !.items = Append(@, [NewItem(o, u, CERT, c) EXCEPT !.mode = mode]),
                                !.cbRuns = Append(@, 0)]
          it == [d2.items[id] EXCEPT
                   !.status = d.orders[o].status,
                   !.qty = 1,
                   !.unit_cost = cost,
                   !.currency = currency]
      IN IF ~CourseExists(d, c) THEN Raise(d, "AttributeError")
         ELSE Ok([d2 EXCEPT !.items[id] = it, !.orders[o].currency = currency])

\* ------------------------------------------------------------------------
\* Fulfillment
\* ------------------------------------------------------------------------
\* mutant: one code per bundle item, whatever its quantity
MintCodes_single(d, u, c, o, n) ==
    SaveRegistrationCode(d, u, c, 0, o)

RECURSIVE MintCodes(_, _, _, _, _)
\* CourseRegCodeItem.purchased_callback, models.py 971-972: the loop
MintCodes(d, u, c, o, n) ==
    IF n <= 0 THEN d
    ELSE MintCodes(SaveRegistrationCode(d, u, c, 0, o), u, c, o, n - 1)

\* purchased_callback of the item with key i: PaidCourseRegistration 830-844,
\* CourseRegCodeItem 956-975, CertificateItem 1130-1142, Donation 1283-1285.
\* it is the object the caller holds.
purchased_callback(d, i, it) ==
    LET ran == [d EXCEPT !.cbRuns[i] = Min(@ + 1, MaxCallbackRuns)]
    IN CASE it.kind = SEAT ->
              IF ~CourseExists(d, it.course_id) THEN Raise(d, "PurchasedCallbackException")
              ELSE Ok(EnrollUser(ran, it.user, it.course_id, it.mode))
         [] it.kind = BUNDLE ->
              IF ~CourseExists(d, it.course_id) THEN Raise(d, "PurchasedCallbackException")
              ELSE Ok(MintCodes(ran, it.user, it.course_id, it.order, it.qty))
         [] it.kind = CERT ->
              Ok(ChangeModeAndActivate(ran, it.user, it.course_id, it.mode))
         [] OTHER -> Ok(ran)

\* mutant: purchase_item that marks the item before the callback runs and
\* keeps the mark when the callback raises
purchase_item_marked_first(d, i, it) ==
    purchased_callback([d EXCEPT !.items[i] =
                           [it EXCEPT !.status = "purchased", !.fulfilled_time = 1]], i, it)

\* OrderItem.purchase_item, models.py 470-479, on the object it the caller
\* holds: commit_on_success, so a callback that raises leaves no write
purchase_item(d, i, it) ==
    Atomic(d, Then(purchased_callback(d, i, it),
                   LAMBDA x : Ok([x EXCEPT !.items[i] =
                       [it EXCEPT !.status = "purchased", !.fulfilled_time = 1]])))

\* mutant: the item is set to paying but never saved
item_start_purchase_unsaved(d, i) == d

\* OrderItem.start_purchase, models.py 481-487
item_start_purchase(d, i) ==
    [d EXCEPT !.items[i].status = "paying"]

\* ------------------------------------------------------------------------
\* Order
\* ------------------------------------------------------------------------
\* mutant: the newest order of u, whatever its status
NewestCart_any_status(d, u) ==
    LET mine == {o \in OrderIds(d) : d.orders[o].user = u}
    IN IF mine = {} THEN 0 ELSE CHOOSE o \in mine : \A q \in mine : q <= o

\* Order.get_cart_for_user, models.py 116-127, line 123: the newest cart of u
\* (0 when there is none)
NewestCart(d, u) ==
    LET mine == {o \in OrderIds(d) : d.orders[o].user = u /\ d.orders[o].status = "cart"}
    IN IF mine = {} THEN 0 ELSE CHOOSE o \in mine : \A q \in mine : q <= o

\* Order.get_cart_for_user, models.py 116-127
get_cart_for_user(d, u) ==
    IF NewestCart(d, u) # 0 THEN [db |-> d, id |-> NewestCart(d, u)]
    ELSE [db |-> [d EXCEPT !.orders = Append(@, NewOrder(u))], id |-> Len(d.orders) + 1]

\* mutant: total_cost without the status filter of line 158
total_cost_any_status(d, o) ==
    LET RECURSIVE Sum(_)
        Sum(S) == IF S = {} THEN 0
                  ELSE LET i == CHOOSE x \in S : TRUE
                       IN line_cost(d.items[i]) + Sum(S \ {i})
    IN Sum(ItemsOf(d, o))

\* Order.total_cost, models.py 152-158
total_cost(d, o) ==
    LET RECURSIVE Sum(_)
        Sum(S) == IF S = {} THEN 0
                  ELSE LET i == CHOOSE x \in S : TRUE
                       IN line_cost(d.items[i]) + Sum(S \ {i})
    IN Sum({i \in ItemsOf(d, o) : d.items[i].status = d.orders[o].status})

RECURSIVE StartItems(_, _)
\* Order.start_purchase, models.py 203-204: the loop
StartItems(d, todo) ==
    IF todo = <<>> THEN d
    ELSE StartItems(item_start_purchase(d, Head(todo)), Tail(todo))

\* mutant: start_purchase without the status check of line 199
start_purchase_unguarded(d, o) ==
    StartItems([d EXCEPT !.orders[o].status = "paying"], SortedSeq(ItemsOf(d, o)))

\* Order.start_purchase, models.py 190-204
start_purchase(d, o) ==
    IF d.orders[o].status = "cart"
    THEN StartItems([d EXCEPT !.orders[o].status = "paying"], SortedSeq(ItemsOf(d, o)))
    ELSE d

RECURSIVE Reclassify(_, _, _, _, _)
\* Order.update_order_type, models.py 222-232: one of the two loops over the
\* items read at line 218; from is the subclass replaced
Reclassify(d, o, cart_items, todo, from) ==
    IF todo = <<>> THEN Ok(d)
    ELSE LET it == cart_items[Head(todo)]
         IN Then(IF it.kind # from THEN Ok(d)
                 ELSE IF from = SEAT
                 THEN BundleAddToOrder(d, o, it.course_id, it.qty, "honor", NoneVal, "")
                 ELSE SeatAddToOrder(d, o, it.course_id, "honor", NoneVal, ""),
                 LAMBDA x : Reclassify(x, o, cart_items, Tail(todo), from))

\* mutant: update_order_type without the deletions of lines 235-236
update_order_type_keeps_replaced(d, o) ==
    LET ids == ItemsOf(d, o)
        cart_items == d.items
        is_order_type_business == \E i \in ids : cart_items[i].qty > 1
        from == IF is_order_type_business THEN SEAT ELSE BUNDLE
    IN Then(Reclassify(d, o, cart_items, SortedSeq(ids), from),
            LAMBDA x : Ok([x EXCEPT
                  !.orders[o].order_type =
                      IF is_order_type_business THEN BUSINESS ELSE PERSONAL]))

\* Order.update_order_type, models.py 206-239
update_order_type(d, o) ==
    LET ids == ItemsOf(d, o)
        cart_items == d.items
        is_order_type_business == \E i \in ids : cart_items[i].qty > 1
        from == IF is_order_type_business THEN SEAT ELSE BUNDLE
        items_to_delete == {i \in ids : cart_items[i].kind = from}
    IN Then(Reclassify(d, o, cart_items, SortedSeq(ids), from),
            LAMBDA x : Ok([x EXCEPT
                  !.items = [i \in DOMAIN x.items |->
                               IF i \in items_to_delete THEN NoRow ELSE x.items[i]],
                  !.orders[o].order_type =
                      IF is_order_type_business THEN BUSINESS ELSE PERSONAL]))

RECURSIVE PurchaseItems(_, _, _)
\* Order.purchase, models.py 369-370: the loop over the items read when it
\* starts (all is the table as read then)
PurchaseItems(d, all, todo) ==
    IF todo = <<>> THEN Ok(d)
    ELSE Then(purchase_item(d, Head(todo), all[Head(todo)]),
              LAMBDA x : PurchaseItems(x, all, Tail(todo)))

\* mutant: purchase without the early return of lines 341-342
purchase_unguarded(d, o) ==
    LET d1 == [d EXCEPT !.orders[o].status = "purchased",
                        !.orders[o].purchase_time = 1]
    IN Then(IF d1.orders[o].order_type = BUSINESS
            THEN update_order_type(d1, o) ELSE Ok(d1),
            LAMBDA x : PurchaseItems(x, x.items, SortedSeq(ItemsOf(x, o))))

\* mutant: purchase that reads the items of the order before the pass runs
purchase_items_read_first(d, o) ==
    IF d.orders[o].status = "purchased" THEN Ok(d)
    ELSE
      LET d1 == [d EXCEPT !.orders[o].status = "purchased",
                          !.orders[o].purchase_time = 1]
      IN Then(IF d1.orders[o].order_type = BUSINESS
              THEN update_order_type(d1, o) ELSE Ok(d1),
              LAMBDA x : PurchaseItems(x, d1.items, SortedSeq(ItemsOf(d1, o))))

\* Order.purchase, models.py 341-370.  The order is saved (line 360) before
\* any item is touched; nothing encloses the calls in one transaction, so
\* what was committed before an exception stays.  Lines 372-381 (the CSV and
\* the confirmation e-mails) write nothing to these tables.
purchase(d, o) ==
    IF d.orders[o].status = "purchased" THEN Ok(d)
    ELSE
      LET d1 == [d EXCEPT !.orders[o].status = "purchased",
                          !.orders[o].purchase_time = 1]
      IN Then(IF d1.orders[o].order_type = BUSINESS
              THEN update_order_type(d1, o) ELSE Ok(d1),
              LAMBDA x : PurchaseItems(x, x.items, SortedSeq(ItemsOf(x, o))))

RECURSIVE FreeEnrollItems(_, _, _)
\* CourseRegistrationCode.free_user_enrollment, models.py 582-587: the loop
FreeEnrollItems(d, u, todo) ==
    IF todo = <<>> THEN d
    ELSE LET i == Head(todo)
             d1 == EnrollUser(d, u, d.items[i].course_id, "honor")
         IN FreeEnrollItems([d1 EXCEPT !.items[i].status = "purchased"], u, Tail(todo))

\* mutant: free_user_enrollment that fulfils the items as purchase does
free_user_enrollment_fulfilling(d, o) ==
    IF ItemsOf(d, o) = {} THEN d
    ELSE purchase_unguarded(d, o).db

\* CourseRegistrationCode.free_user_enrollment, models.py 574-591
free_user_enrollment(d, o) ==
    IF ItemsOf(d, o) = {} THEN d
    ELSE LET d1 == FreeEnrollItems(d, d.orders[o].user, SortedSeq(ItemsOf(d, o)))
         IN [d1 EXCEPT !.orders[o].status = "purchased",
                       !.orders[o].purchase_time = 1]

\* mutant: refund_cert_callback without the test of line 1037
refund_cert_callback_any_time(d, u, c, refundable) ==
    LET target_certs == {i \in ItemIds(d) : /\ d.items[i].kind = CERT
                                            /\ d.items[i].course_id = c
                                            /\ d.items[i].user = u
                                            /\ d.items[i].status = "purchased"
                                            /\ d.items[i].mode = "verified"}
    IN IF target_certs = {} THEN d
       ELSE LET t == CHOOSE i \in target_certs : \A j \in target_certs : i <= j
            IN [d EXCEPT !.items[t].status = "refunded",
                         !.items[t].refund_requested_time = 1,
                         !.orders[d.items[t].order].status = "refunded"]

\* CertificateItem.refund_cert_callback, models.py 1027-1051; refundable is
\* what course_enrollment.refundable() answers
refund_cert_callback(d, u, c, refundable) ==
    LET target_certs == {i \in ItemIds(d) : /\ d.items[i].kind = CERT
                                            /\ d.items[i].course_id = c
                                            /\ d.items[i].user = u
                                            /\ d.items[i].status = "purchased"
                                            /\ d.items[i].mode = "verified"}
    IN IF ~refundable \/ target_certs = {} THEN d
       ELSE LET t == CHOOSE i \in target_certs : \A j \in target_certs : i <= j
            IN [d EXCEPT !.items[t].status = "refunded",
                         !.items[t].refund_requested_time = 1,
                         !.orders[d.items[t].order].status = "refunded"]

\* ------------------------------------------------------------------------
\* RegistrationCodeRedemption
\* ------------------------------------------------------------------------
\* cls.objects.filter(registration_code=course_reg_code), models.py 625
CodeRedemptions(d, code) ==
    {k \in 1..Len(d.regRedemptions) : d.regRedemptions[k].registration_code = code}

\* models.py 620-622: the first item of the order, in the order read, that
\* has a course_id equal to the code's (0 when there is none)
FirstItemForCourse(d, ids, c) ==
    LET match == {i \in ids : d.items[i].course_id # "" /\ d.items[i].course_id = c}
    IN IF match = {} THEN 0 ELSE CHOOSE i \in match : \A j \in match : i <= j

\* mutant: the item is made free and its price before is not kept
FullDiscount_price_forgotten(d, i) ==
    [d EXCEPT !.items[i].unit_cost = 0]

\* models.py 632-634: the item is made free, its price kept as list_price
FullDiscount(d, i) ==
    [d EXCEPT !.items[i].list_price = d.items[i].unit_cost,
              !.items[i].unit_cost = 0]

\* mutant: add_reg_code_redemption without the check of lines 625-628
add_reg_code_redemption_unchecked(d, code, o) ==
    LET i == FirstItemForCourse(d, ItemsOf(d, o), d.codes[code].course_id)
    IN IF i = 0 THEN Raise(d, "ItemDoesNotExistAgainstRegCodeException")
       ELSE Ok(FullDiscount([d EXCEPT
                  !.regRedemptions = Append(@, [registration_code |-> code, order |-> o,
                                                redeemed_by |-> d.orders[o].user])], i))

\* mutant: add_reg_code_redemption that records the redemption before it
\* looks for the item
add_reg_code_redemption_recorded_first(d, code, o) ==
    LET i == FirstItemForCourse(d, ItemsOf(d, o), d.codes[code].course_id)
        d1 == [d EXCEPT
                 !.regRedemptions = Append(@, [registration_code |-> code, order |-> o,
                                               redeemed_by |-> d.orders[o].user])]
    IN IF CodeRedemptions(d, code) # {} THEN Raise(d, "RegCodeAlreadyExistException")
       ELSE IF i = 0 THEN Raise(d1, "ItemDoesNotExistAgainstRegCodeException")
       ELSE Ok(FullDiscount(d1, i))

\* RegistrationCodeRedemption.add_reg_code_redemption, models.py 613-640
add_reg_code_redemption(d, code, o) ==
    LET i == FirstItemForCourse(d, ItemsOf(d, o), d.codes[code].course_id)
    IN IF i = 0 THEN Raise(d, "ItemDoesNotExistAgainstRegCodeException")
       ELSE IF CodeRedemptions(d, code) # {} THEN Raise(d, "RegCodeAlreadyExistException")
       ELSE Ok(FullDiscount([d EXCEPT
                  !.regRedemptions = Append(@, [registration_code |-> code, order |-> o,
                                                redeemed_by |-> d.orders[o].user])], i))

\* RegistrationCodeRedemption.create_invoice_generated_registration_redemption,
\* models.py 642-649
create_invoice_generated_registration_redemption(d, code, u) ==
    [d EXCEPT !.regRedemptions = Append(@, [registration_code |-> code, order |-> 0,
                                            redeemed_by |-> u])]

\* ------------------------------------------------------------------------
\* Requests, each run to its end on freshly loaded objects
\* ------------------------------------------------------------------------
MaxQty == 2
CertCosts == {3000}

Called(op, err) == last' = [op |-> op, err |-> err]

Idle == \A p \in Procs : pc[p] = "idle"

Init ==
    /\ orders = <<>>
    /\ items = <<>>
    /\ codes = <<>>
    /\ regRedemptions = <<>>
    /\ couponRedemptions = <<>>
    /\ outbox = {}
    /\ enroll = [u \in Users |-> [c \in Courses |-> NoEnrollment]]
    /\ courses = Courses
    /\ cbRuns = <<>>
    /\ last = [op |-> "init", err |-> "ok"]
    /\ pc = [p \in Procs |-> "idle"]
    /\ loc = [p \in Procs |-> <<>>]

InBounds(d) ==
    /\ Len(d.orders) <= MaxOrders
    /\ Len(d.items) <= MaxItems
    /\ Len(d.codes) <= MaxCodes
    /\ Len(d.regRedemptions) <= MaxRedemptions
    /\ Len(d.couponRedemptions) <= MaxRedemptions

GetCart(u) ==
    LET r == get_cart_for_user(DB, u)
    IN /\ InBounds(r.db)
       /\ Commit(r.db)
       /\ Called("get_cart_for_user", "ok")
       /\ UNCHANGED procvars

AddSeat(o, c) ==
    LET r == SeatAddToOrder(DB, o, c, "honor", NoneVal, "")
    IN /\ InBounds(r.db)
       /\ Commit(r.db)
       /\ Called("seat.add_to_order", r.err)
       /\ UNCHANGED procvars

AddBundle(o, c, qty) ==
    LET r == BundleAddToOrder(DB, o, c, qty, "honor", NoneVal, "")
    IN /\ InBounds(r.db)
       /\ Commit(r.db)
       /\ Called("bundle.add_to_order", r.err)
       /\ UNCHANGED procvars

AddCert(o, c, cost, mode) ==
    LET r == CertAddToOrder(DB, o, c, cost, mode, "usd")
    IN /\ InBounds(r.db)
       /\ Commit(r.db)
       /\ Called("cert.add_to_order", r.err)
       /\ UNCHANGED procvars

StartPurchase(o) ==
    /\ Commit(start_purchase(DB, o))
    /\ Called("start_purchase", "ok")
    /\ UNCHANGED procvars

UpdateOrderType(o) ==
    LET r == update_order_type(DB, o)
    IN /\ InBounds(r.db)
       /\ Commit(r.db)
       /\ Called("update_order_type", r.err)
       /\ UNCHANGED procvars

Purchase(o) ==
    LET r == purchase(DB, o)
    IN /\ InBounds(r.db)
       /\ Commit(r.db)
       /\ Called(IF orders[o].status = "purchased" THEN "purchase.again" ELSE "purchase", r.err)
       /\ UNCHANGED procvars

FreeUserEnrollment(o) ==
    /\ Commit(free_user_enrollment(DB, o))
    /\ Called("free_user_enrollment", "ok")
    /\ UNCHANGED procvars

\* CourseEnrollment.unenroll: the enrollment is deactivated and UNENROLL_DONE
\* is sent, which runs refund_cert_callback
Unenroll(u, c, refundable) ==
    /\ IsEnrolled(DB, u, c)
    /\ Commit(refund_cert_callback([DB EXCEPT !.enroll[u][c].is_active = FALSE],
                                   u, c, refundable))
    /\ Called("unenroll", "ok")
    /\ UNCHANGED procvars

\* the course is taken out of the modulestore
RemoveCourse(c) ==
    /\ c \in courses
    /\ courses' = courses \ {c}
    /\ Called("remove_course", "ok")
    /\ UNCHANGED <<orders, items, codes, regRedemptions, couponRedemptions, outbox, enroll,
                 cbRuns, pc, loc>>

\* The carts: add_to_order is handed the order get_cart_for_user returned
Carts == {o \in OrderIds(DB) : orders[o].status = "cart"}

\* the users who shop and the courses on sale in the order-lifecycle
\* specification
Shoppers == {"u1"}
OnSale == {"c1"}

Next ==
    \/ \E u \in Shoppers : GetCart(u)
    \/ \E o \in Carts, c \in OnSale : AddSeat(o, c)
    \/ \E o \in Carts, c \in OnSale, k \in CertCosts : AddCert(o, c, k, "verified")
    \/ \E o \in OrderIds(DB) : StartPurchase(o)
    \/ \E o \in OrderIds(DB) : Purchase(o)
    \/ \E o \in OrderIds(DB) : FreeUserEnrollment(o)
    \/ \E u \in Shoppers, c \in OnSale, b \in BOOLEAN : Unenroll(u, c, b)
    \/ \E c \in OnSale : RemoveCourse(c)

Spec == Init /\ [][Next]_vars

\* ------------------------------------------------------------------------
\* The redemption ledger
\* ------------------------------------------------------------------------
CodeIds == 1..Len(codes)

\* a registration code is generated for an invoice (instructor dashboard)
GenerateInvoiceCode(u, c) ==
    LET d == SaveRegistrationCode(DB, u, c, 1, 0)
    IN /\ InBounds(d)
       /\ Commit(d)
       /\ Called("save_registration_code", "ok")
       /\ UNCHANGED procvars

AddRegCodeRedemption(code, o) ==
    LET r == add_reg_code_redemption(DB, code, o)
    IN /\ InBounds(r.db)
       /\ Commit(r.db)
       /\ Called("add_reg_code_redemption", r.err)
       /\ UNCHANGED procvars

CreateInvoiceRedemption(code, u) ==
    LET d == create_invoice_generated_registration_redemption(DB, code, u)
    IN /\ InBounds(d)
       /\ Commit(d)
       /\ Called("create_invoice_generated_registration_redemption", "ok")
       /\ UNCHANGED procvars

NextRedeem ==
    \/ \E u \in Users : GetCart(u)
    \/ \E o \in Carts, c \in Courses : AddSeat(o, c)
    \/ \E c \in Courses : GenerateInvoiceCode("u1", c)
    \/ \E code \in CodeIds, o \in OrderIds(DB) : AddRegCodeRedemption(code, o)
    \/ \E code \in CodeIds, u \in Shoppers : CreateInvoiceRedemption(code, u)

SpecRedeem == Init /\ [][NextRedeem]_vars

\* ------------------------------------------------------------------------
\* Claims about the order lifecycle (Spec)
\* ------------------------------------------------------------------------
\* C2: for every OrderItem, item.status equals the status of its owning
\* order after any mutating operation has completed.
C2_ItemStatusMirrorsOrder ==
    \A i \in LiveItems : items[i].status = orders[items[i].order].status

\* C3: a purchase call on an order that is already purchased changes no
\* state and runs no callback; the call that purchased it ran the callback
\* of each of its items once.
C3_PurchaseTwiceRunsOnce ==
    [][\A o \in OrderIds(DB) :
         (last'.op \in {"purchase", "purchase.again"} /\ Purchase(o)) =>
           IF orders[o].status = "purchased"
           THEN UNCHANGED dbvars
           ELSE last'.err = "ok" =>
                  \A i \in ItemsOf(DB, o) :
                     cbRuns'[i] = Min(cbRuns[i] + 1, MaxCallbackRuns)]_vars

\* C3 witness: purchase was called again on a purchased order whose item has
\* had its callback run once.
C3_Witness ==
    /\ last.op = "purchase.again"
    /\ \E i \in LiveItems : /\ items[i].status = "purchased"
                            /\ orders[items[i].order].status = "purchased"
                            /\ cbRuns[i] = 1

C6_StartPurchase ==
    [][\A o \in OrderIds(DB) :
         (last'.op = "start_purchase" /\ StartPurchase(o)) =>
           IF orders[o].status = "cart"
           THEN /\ orders'[o].status = "paying"
                /\ ItemsOf(DB, o) = {i \in 1..Len(items') : ~items'[i].deleted /\ items'[i].order = o}
                /\ \A i \in ItemsOf(DB, o) : items'[i].status = "paying"
           ELSE UNCHANGED dbvars]_vars

\* C6 witness: start_purchase has moved a cart with two items to paying.
C6_Witness ==
    /\ last.op = "start_purchase"
    /\ \E o \in OrderIds(DB) : /\ orders[o].status = "paying"
                               /\ Cardinality(ItemsOf(DB, o)) = 2
                               /\ \A i \in ItemsOf(DB, o) : items[i].status = "paying"

\* ------------------------------------------------------------------------
\* Claims about the redemption ledger (SpecRedeem)
\* ------------------------------------------------------------------------
\* C8: each CourseRegistrationCode has at most one RegistrationCodeRedemption.
C8_AtMostOneRedemptionPerCode ==
    \A code \in CodeIds : Cardinality(CodeRedemptions(DB, code)) <= 1

HasItemForCode(code, o) ==
    FirstItemForCourse(DB, ItemsOf(DB, o), codes[code].course_id) # 0

Goto(p, label, l) ==
    /\ pc' = [pc EXCEPT ![p] = label]
    /\ loc' = [loc EXCEPT ![p] = l]

Return(p, op, err) ==
    /\ pc' = [pc EXCEPT ![p] = "idle"]
    /\ loc' = [loc EXCEPT ![p] = <<>>]
    /\ Called(op, err)

CartsOf(d, u) ==
    {o \in OrderIds(d) : d.orders[o].user = u /\ d.orders[o].status = "cart"}

\* Order.get_cart_for_user, models.py 123: the filter
GC_Filter(p, u) ==
    /\ pc[p] = "idle"
    /\ UNCHANGED dbvars
    /\ IF NewestCart(DB, u) # 0
       THEN Return(p, "get_cart_for_user", "ok")
       ELSE Goto(p, "gc_get", [user |-> u]) /\ UNCHANGED last

\* models.py 126: the SELECT of get_or_create(user=user, status='cart')
GC_Get(p) ==
    /\ pc[p] = "gc_get"
    /\ UNCHANGED dbvars
    /\ LET n == Cardinality(CartsOf(DB, loc[p].user))
       IN IF n = 0 THEN Goto(p, "gc_create", loc[p]) /\ UNCHANGED last
          ELSE IF n = 1 THEN Return(p, "get_cart_for_user", "ok")
          ELSE Return(p, "get_cart_for_user", "MultipleObjectsReturned")

\* models.py 126: the INSERT of get_or_create(user=user, status='cart')
GC_Create(p) ==
    /\ pc[p] = "gc_create"
    /\ Len(orders) < MaxOrders
    /\ orders' = Append(orders, NewOrder(loc[p].user))
    /\ UNCHANGED <<items, codes, regRedemptions, couponRedemptions, outbox, enroll, courses, cbRuns>>
    /\ Return(p, "get_cart_for_user", "ok")

\* the caller fetches the order it will purchase
PU_Load(p, o) ==
    /\ pc[p] = "idle"
    /\ UNCHANGED dbvars
    /\ UNCHANGED last
    /\ Goto(p, "pu_order", [order |-> o, self |-> orders[o]])

\* Order.purchase, models.py 341-360
PU_Order(p) ==
    /\ pc[p] = "pu_order"
    /\ IF loc[p].self.status = "purchased"
       THEN UNCHANGED dbvars /\ Return(p, "purchase.again", "ok")
       ELSE LET self == [loc[p].self EXCEPT !.status = "purchased", !.purchase_time = 1]
            IN /\ orders' = [orders EXCEPT ![loc[p].order] = self]
               /\ UNCHANGED <<items, codes, regRedemptions, couponRedemptions, outbox, enroll, courses, cbRuns>>
               /\ UNCHANGED last
               /\ Goto(p, "pu_items", [loc[p] EXCEPT !.self = self])

\* Order.purchase, models.py 363-369: the reclassification pass of a business
\* order, then the items are read
PU_Items(p) ==
    /\ pc[p] = "pu_items"
    /\ LET o == loc[p].order
           r == IF loc[p].self.order_type = BUSINESS
                THEN update_order_type(DB, o) ELSE Ok(DB)
       IN /\ InBounds(r.db)
          /\ Commit(r.db)
          /\ IF r.err # "ok" THEN Return(p, "purchase", r.err)
             ELSE /\ UNCHANGED last
                  /\ Goto(p, "pu_item", [order |-> o, all |-> r.db.items,
                                         todo |-> SortedSeq(ItemsOf(r.db, o))])

\* Order.purchase, models.py 369-370: purchase_item of the next item
PU_Item(p) ==
    /\ pc[p] = "pu_item"
    /\ IF loc[p].todo = <<>>
       THEN UNCHANGED dbvars /\ Return(p, "purchase", "ok")
       ELSE LET i == Head(loc[p].todo)
                r == purchase_item(DB, i, loc[p].all[i])
            IN /\ InBounds(r.db)
               /\ Commit(r.db)
               /\ IF r.err # "ok" THEN Return(p, "purchase", r.err)
                  ELSE /\ UNCHANGED last
                       /\ Goto(p, "pu_item", [loc[p] EXCEPT !.todo = Tail(@)])

\* RegistrationCodeRedemption.add_reg_code_redemption, models.py 618-620:
\* the items of the order are read
RC_Load(p, code, o) ==
    /\ pc[p] = "idle"
    /\ UNCHANGED dbvars
    /\ UNCHANGED last
    /\ Goto(p, "rc_check", [code |-> code, order |-> o, all |-> items,
                            item |-> FirstItemForCourse(DB, ItemsOf(DB, o),
                                                        codes[code].course_id)])

\* models.py 620-628 and 639-640
RC_Check(p) ==
    /\ pc[p] = "rc_check"
    /\ UNCHANGED dbvars
    /\ IF loc[p].item = 0
       THEN Return(p, "add_reg_code_redemption", "ItemDoesNotExistAgainstRegCodeException")
       ELSE IF CodeRedemptions(DB, loc[p].code) # {}
       THEN Return(p, "add_reg_code_redemption", "RegCodeAlreadyExistException")
       ELSE Goto(p, "rc_insert", loc[p]) /\ UNCHANGED last

\* models.py 630-631
RC_Insert(p) ==
    /\ pc[p] = "rc_insert"
    /\ Len(regRedemptions) < MaxRedemptions
    /\ regRedemptions' = Append(regRedemptions,
                                [registration_code |-> loc[p].code,
                                 order |-> loc[p].order,
                                 redeemed_by |-> orders[loc[p].order].user])
    /\ UNCHANGED <<orders, items, codes, couponRedemptions, outbox, enroll, courses, cbRuns, last>>
    /\ Goto(p, "rc_save", loc[p])

\* models.py 632-637
RC_Save(p) ==
    /\ pc[p] = "rc_save"
    /\ LET i == loc[p].item
           it == loc[p].all[i]
       IN items' = [items EXCEPT ![i] = [it EXCEPT !.list_price = it.unit_cost,
                                                   !.unit_cost = 0]]
    /\ UNCHANGED <<orders, codes, regRedemptions, couponRedemptions, outbox, enroll, courses, cbRuns>>
    /\ Return(p, "add_reg_code_redemption", "ok")

\* Two get_cart_for_user calls at a time, their statements interleaved, among
\* the other operations on orders.
NextCartRace ==
    \/ \E p \in Procs, u \in Users : GC_Filter(p, u)
    \/ \E p \in Procs : GC_Get(p)
    \/ \E p \in Procs : GC_Create(p)
    \/ \E o \in Carts, c \in OnSale : AddSeat(o, c)
    \/ \E o \in OrderIds(DB) : StartPurchase(o)
    \/ \E o \in OrderIds(DB) : Purchase(o)
    \/ \E o \in OrderIds(DB) : FreeUserEnrollment(o)

SpecCartRace == Init /\ [][NextCartRace]_vars

\* Two purchase calls at a time, their statements interleaved.
NextPurchaseRace ==
    \/ \E u \in Shoppers : Idle /\ GetCart(u)
    \/ \E o \in Carts, c \in OnSale : Idle /\ AddSeat(o, c)
    \/ \E o \in Carts, c \in OnSale, k \in CertCosts : Idle /\ AddCert(o, c, k, "verified")
    \/ \E o \in OrderIds(DB) : Idle /\ StartPurchase(o)
    \/ \E p \in Procs, o \in OrderIds(DB) : PU_Load(p, o)
    \/ \E p \in Procs : PU_Order(p)
    \/ \E p \in Procs : PU_Items(p)
    \/ \E p \in Procs : PU_Item(p)

SpecPurchaseRace == Init /\ [][NextPurchaseRace]_vars

\* Two add_reg_code_redemption calls at a time, their statements interleaved.
NextRedeemRace ==
    \/ \E u \in Users : Idle /\ GetCart(u)
    \/ \E o \in Carts, c \in OnSale : Idle /\ AddSeat(o, c)
    \/ \E c \in OnSale : Idle /\ GenerateInvoiceCode("u1", c)
    \/ \E p \in Procs, code \in CodeIds, o \in OrderIds(DB) : RC_Load(p, code, o)
    \/ \E p \in Procs : RC_Check(p)
    \/ \E p \in Procs : RC_Insert(p)
    \/ \E p \in Procs : RC_Save(p)

SpecRedeemRace == Init /\ [][NextRedeemRace]_vars

\* ------------------------------------------------------------------------
\* Claims about interleaved requests
\* ------------------------------------------------------------------------
\* C1: each user owns at most one Order whose status is 'cart'.
C1_AtMostOneCartPerUser ==
    \A u \in Users : Cardinality(CartsOf(DB, u)) <= 1

\* C4: purchased_callback runs once per item of the order, also when two
\* purchase calls on the order run concurrently.
C4_CallbackOncePerItem ==
    \A i \in LiveItems : cbRuns[i] <= 1

\* C10: of two interleaved add_reg_code_redemption calls for one code at most
\* one records a redemption; the code is never spent twice.
C10_NoDoubleSpend ==
    \A k1, k2 \in 1..Len(regRedemptions) :
       regRedemptions[k1].registration_code = regRedemptions[k2].registration_code
          => k1 = k2

\* ------------------------------------------------------------------------
\* Interrupted requests.  start_purchase runs under commit_on_success: its
\* writes go to the transaction and reach the committed tables when the
\* method returns; a request that dies before that leaves them untouched.
\* purchase has no transaction of its own: every save() in it, and every
\* purchase_item, is committed as it is made.
\* ------------------------------------------------------------------------
\* mutant: the writes of start_purchase committed one by one
committed_during_autocommit(d, tx) == tx

\* @transaction.commit_on_success, models.py 190: what the committed tables
\* hold while the transaction with working copy tx is open
committed_during(d, tx) == d

\* the caller fetches the order it will start to purchase; the transaction
\* of start_purchase opens
SP_Load(p, o) ==
    /\ pc[p] = "idle"
    /\ UNCHANGED dbvars
    /\ UNCHANGED last
    /\ Goto(p, "sp_order", [order |-> o, self |-> orders[o], tx |-> DB])

\* Order.start_purchase, models.py 199-203
SP_Order(p) ==
    /\ pc[p] = "sp_order"
    /\ IF loc[p].self.status # "cart"
       THEN UNCHANGED dbvars /\ Return(p, "start_purchase", "ok")
       ELSE LET o == loc[p].order
                self == [loc[p].self EXCEPT !.status = "paying"]
                tx == [loc[p].tx EXCEPT !.orders[o] = self]
            IN /\ Commit(committed_during(DB, tx))
               /\ UNCHANGED last
               /\ Goto(p, "sp_item", [order |-> o, self |-> self, tx |-> tx,
                                      todo |-> SortedSeq(ItemsOf(tx, o))])

\* Order.start_purchase, models.py 203-204: start_purchase of the next item;
\* after the last one the method returns and the transaction commits
SP_Item(p) ==
    /\ pc[p] = "sp_item"
    /\ IF loc[p].todo = <<>>
       THEN Commit(loc[p].tx) /\ Return(p, "start_purchase", "ok")
       ELSE LET tx == item_start_purchase(loc[p].tx, Head(loc[p].todo))
            IN /\ Commit(committed_during(DB, tx))
               /\ UNCHANGED last
               /\ Goto(p, "sp_item", [loc[p] EXCEPT !.tx = tx, !.todo = Tail(@)])

\* the request dies where it stands: an open transaction is rolled back,
\* what was committed stays
Crash(p) ==
    /\ pc[p] # "idle"
    /\ UNCHANGED dbvars
    /\ Return(p, IF pc[p] \in {"sp_order", "sp_item"} THEN "start_purchase"
                 ELSE IF pc[p] \in {"rc_check", "rc_insert", "rc_save"}
                 THEN "add_reg_code_redemption"
                 ELSE IF pc[p] \in {"cr_insert", "cr_save"}
                 THEN "add_coupon_redemption"
                 ELSE "purchase", "crash")

Worker == "p1"

NextCrash ==
    \/ \E u \in Shoppers : Idle /\ GetCart(u)
    \/ \E o \in Carts, c \in OnSale : Idle /\ AddSeat(o, c)
    \/ \E o \in Carts, c \in OnSale, k \in CertCosts : Idle /\ AddCert(o, c, k, "verified")
    \/ \E c \in OnSale : Idle /\ RemoveCourse(c)
    \/ \E o \in OrderIds(DB) : SP_Load(Worker, o)
    \/ SP_Order(Worker)
    \/ SP_Item(Worker)
    \/ \E o \in OrderIds(DB) : PU_Load(Worker, o)
    \/ PU_Order(Worker)
    \/ PU_Items(Worker)
    \/ PU_Item(Worker)
    \/ Crash(Worker)

SpecCrash == Init /\ [][NextCrash]_vars

Coupons ==
    <<[code |-> "X", course_id |-> "c1", percentage_discount |-> 25],
      [code |-> "X", course_id |-> "c1", percentage_discount |-> 50],
      [code |-> "Y", course_id |-> "c2", percentage_discount |-> 20]>>

CouponIds == 1..Len(Coupons)

\* percentage_discount / 100.00, models.py 710, is a binary double: the
\* percentages whose quotient the double holds exactly, and those whose
\* double lies below the quotient (for the rest it lies above)
FloatExact == {0, 25, 50, 75, 100}
FloatBelow ==
    {3, 6, 9, 12, 15, 18, 21, 24, 29, 30, 31, 35, 36, 37, 41, 42, 43, 47, 48,
     49, 57, 58, 59, 60, 61, 62, 69, 70, 71, 72, 73, 74, 82, 83, 84, 85, 86,
     87, 94, 95, 96, 97, 98, 99}

\* Decimal("{0:.2f}".format(Decimal(percentage_discount / 100.00) * value)),
\* models.py 710, in cents: the product is rounded to the cent to nearest;
\* a tie exists only when the double is exact and is then broken to the even
\* cent (the rounding of the decimal context), otherwise the error of the
\* double decides
discount(percentage_discount, value) ==
    LET x == percentage_discount * value
        q == x \div 100
        r == x % 100
    IN IF r > 50 THEN q + 1
       ELSE IF r < 50 THEN q
       ELSE IF percentage_discount \in FloatExact
            THEN (IF q % 2 = 0 THEN q ELSE q + 1)
       ELSE IF percentage_discount \in FloatBelow THEN q
       ELSE q + 1

\* CouponRedemption.get_discount_price, models.py 705-711
get_discount_price(percentage_discount, value) ==
    value - discount(percentage_discount, value)

\* cls.objects.filter(order=order, user=order.user), models.py 719
CouponRedemptionsOf(d, o, u) ==
    {k \in 1..Len(d.couponRedemptions) :
        d.couponRedemptions[k].order = o /\ d.couponRedemptions[k].user = u}

\* mutant: the conflict rule of line 721 without its same-id half
CouponConflict_other_code(d, r, coupon) ==
    Coupons[r.coupon].code # Coupons[coupon].code

\* models.py 721: the redemption r already recorded stands in the way of coupon
CouponConflict(d, r, coupon) ==
    Coupons[r.coupon].code # Coupons[coupon].code \/ r.coupon = coupon

\* mutant: the coupon lowers the price of every item of its course
ApplyCoupon_every_item(d, coupon, o) ==
    LET hit == {i \in ItemsOf(d, o) : d.items[i].course_id = Coupons[coupon].course_id}
    IN IF hit = {} THEN d
       ELSE [d EXCEPT
               !.couponRedemptions = Append(@, [order |-> o, user |-> d.orders[o].user,
                                                coupon |-> coupon]),
               !.items = [i \in DOMAIN d.items |->
                            IF i \in hit
                            THEN [d.items[i] EXCEPT
                                    !.list_price = d.items[i].unit_cost,
                                    !.unit_cost =
                                        get_discount_price(Coupons[coupon].percentage_discount,
                                                           d.items[i].unit_cost)]
                            ELSE d.items[i]]]

\* models.py 726-738: the redemption is recorded and the first item of the
\* coupon's course is discounted; nothing happens when there is none
ApplyCoupon(d, coupon, o) ==
    LET i == FirstItemForCourse(d, ItemsOf(d, o), Coupons[coupon].course_id)
    IN IF i = 0 THEN d
       ELSE [d EXCEPT
               !.couponRedemptions = Append(@, [order |-> o, user |-> d.orders[o].user,
                                                coupon |-> coupon]),
               !.items[i].list_price = d.items[i].unit_cost,
               !.items[i].unit_cost =
                   get_discount_price(Coupons[coupon].percentage_discount,
                                      d.items[i].unit_cost)]

\* mutant: add_coupon_redemption without the loop of lines 720-724
add_coupon_redemption_unchecked(d, coupon, o) ==
    Ok(ApplyCoupon(d, coupon, o))

\* CouponRedemption.add_coupon_redemption, models.py 713-740, handed the
\* items of the order as cart_items; ret is is_redemption_applied, the value
\* returned
add_coupon_redemption(d, coupon, o) ==
    IF \E k \in CouponRedemptionsOf(d, o, d.orders[o].user) :
          CouponConflict(d, d.couponRedemptions[k], coupon)
    THEN Raise(d, "MultipleCouponsNotAllowedException")
    ELSE [db |-> ApplyCoupon(d, coupon, o), err |-> "ok",
          ret |-> FirstItemForCourse(d, ItemsOf(d, o), Coupons[coupon].course_id) # 0]

\* RegistrationCodeRedemption.delete_registration_redemption, models.py 603-611
delete_registration_redemption(d, u, o) ==
    [d EXCEPT !.regRedemptions =
        SelectSeq(@, LAMBDA r : ~(r.redeemed_by = u /\ r.order = o))]

\* mutant: the unit_cost is put back and the list_price kept
reset_cart_items_prices_keeps_list(d, o) ==
    [d EXCEPT !.items = [i \in DOMAIN d.items |->
        IF i \in ItemsOf(d, o) /\ d.items[i].list_price \notin {NoneVal, 0}
        THEN [d.items[i] EXCEPT !.unit_cost = d.items[i].list_price]
        ELSE d.items[i]]]

\* Order.reset_cart_items_prices, models.py 174-182
reset_cart_items_prices(d, o) ==
    [d EXCEPT !.items = [i \in DOMAIN d.items |->
        IF i \in ItemsOf(d, o) /\ d.items[i].list_price \notin {NoneVal, 0}
        THEN [d.items[i] EXCEPT !.unit_cost = d.items[i].list_price,
                                !.list_price = NoneVal]
        ELSE d.items[i]]]

\* mutant: the prices are put back when the redemption is deleted
delete_coupon_redemption_restoring(d, u, o) ==
    reset_cart_items_prices([d EXCEPT !.couponRedemptions =
        SelectSeq(@, LAMBDA r : ~(r.user = u /\ r.order = o))], o)

\* CouponRedemption.delete_coupon_redemption, models.py 695-703
delete_coupon_redemption(d, u, o) ==
    [d EXCEPT !.couponRedemptions =
        SelectSeq(@, LAMBDA r : ~(r.user = u /\ r.order = o))]

\* Order.clear, models.py 184-188
clear(d, o) ==
    [d EXCEPT !.items = [i \in DOMAIN d.items |->
        IF i \in ItemsOf(d, o) THEN NoRow ELSE d.items[i]]]

AddCouponRedemption(coupon, o) ==
    LET r == add_coupon_redemption(DB, coupon, o)
    IN /\ InBounds(r.db)
       /\ Commit(r.db)
       /\ Called("add_coupon_redemption", r.err)
       /\ UNCHANGED procvars

DeleteCouponRedemption(u, o) ==
    /\ Commit(delete_coupon_redemption(DB, u, o))
    /\ Called("delete_coupon_redemption", "ok")
    /\ UNCHANGED procvars

DeleteRegistrationRedemption(u, o) ==
    /\ Commit(delete_registration_redemption(DB, u, o))
    /\ Called("delete_registration_redemption", "ok")
    /\ UNCHANGED procvars

ResetCartItemsPrices(o) ==
    /\ Commit(reset_cart_items_prices(DB, o))
    /\ Called("reset_cart_items_prices", "ok")
    /\ UNCHANGED procvars

Clear(o) ==
    /\ Commit(clear(DB, o))
    /\ Called("clear", "ok")
    /\ UNCHANGED procvars

\* A cart, the coupons and the registration codes applied to it and taken
\* off again.
NextDiscount ==
    \/ \E u \in Shoppers : GetCart(u)
    \/ \E o \in Carts, c \in Courses : AddSeat(o, c)
    \/ \E c \in OnSale : GenerateInvoiceCode("u1", c)
    \/ \E k \in CouponIds, o \in OrderIds(DB) : AddCouponRedemption(k, o)
    \/ \E code \in CodeIds, o \in OrderIds(DB) : AddRegCodeRedemption(code, o)

SpecDiscount == Init /\ [][NextDiscount]_vars

\* no item of order o carries a discount
Undiscounted(o) == \A i \in ItemsOf(DB, o) : items[i].list_price = NoneVal

\* Discounts put on a cart at its list prices and taken off again: the
\* redemption records are deleted and the prices reset.
NextUndo ==
    \/ \E u \in Shoppers : GetCart(u)
    \/ \E o \in Carts, c \in Courses : AddSeat(o, c)
    \/ \E c \in OnSale : GenerateInvoiceCode("u1", c)
    \/ \E k \in CouponIds, o \in OrderIds(DB) : Undiscounted(o) /\ AddCouponRedemption(k, o)
    \/ \E code \in CodeIds, o \in OrderIds(DB) : Undiscounted(o) /\ AddRegCodeRedemption(code, o)
    \/ \E u \in Users, o \in OrderIds(DB) : DeleteCouponRedemption(u, o)
    \/ \E u \in Users, o \in OrderIds(DB) : DeleteRegistrationRedemption(u, o)
    \/ \E o \in OrderIds(DB) : ResetCartItemsPrices(o)

SpecUndo == Init /\ [][NextUndo]_vars

\* ------------------------------------------------------------------------
\* Claims about discounts (SpecDiscount)
\* ------------------------------------------------------------------------
\* C11 as stated: there is at most one CouponRedemption per (order, user).
C11_OneCouponRedemptionPerOrder ==
    \A o \in OrderIds(DB), u \in Users :
       Cardinality(CouponRedemptionsOf(DB, o, u)) <= 1

\* C11 amended: the coupon redemptions of one (order, user) are of distinct
\* coupons that all carry one code; each coupon is redeemed on it at most once.
C11_OneRedemptionPerCoupon ==
    \A o \in OrderIds(DB), u \in Users :
       \A k1, k2 \in CouponRedemptionsOf(DB, o, u) :
          /\ Coupons[couponRedemptions[k1].coupon].code
                = Coupons[couponRedemptions[k2].coupon].code
          /\ couponRedemptions[k1].coupon = couponRedemptions[k2].coupon => k1 = k2

\* C11 witness: two coupons that share a code are both redeemed on one order.
C11_Witness ==
    \E o \in OrderIds(DB) :
       /\ Cardinality(CouponRedemptionsOf(DB, o, orders[o].user)) = 2
       /\ last.op = "add_coupon_redemption"
       /\ last.err = "ok"

\* models.py 719-721 as a predicate of the state: coupon is refused on order o
Conflicts(coupon, o) ==
    \E k \in CouponRedemptionsOf(DB, o, orders[o].user) :
       \/ Coupons[couponRedemptions[k].coupon].code # Coupons[coupon].code
       \/ couponRedemptions[k].coupon = coupon

\* C12 as stated: on an order that has a coupon redemption every
\* add_coupon_redemption raises MultipleCouponsNotAllowedException and
\* changes nothing.
C12_AnySecondCouponRefused ==
    [][\A k \in CouponIds, o \in OrderIds(DB) :
         (/\ CouponRedemptionsOf(DB, o, orders[o].user) # {}
          /\ last'.op = "add_coupon_redemption"
          /\ AddCouponRedemption(k, o)) =>
            /\ last'.err = "MultipleCouponsNotAllowedException"
            /\ UNCHANGED <<items, couponRedemptions>>]_vars

\* C12 amended: add_coupon_redemption raises
\* MultipleCouponsNotAllowedException, and changes nothing, when the order
\* has a redemption of a coupon with another code or of the same coupon; a
\* different coupon that shares the code of those redeemed is not refused.
C12_ConflictingCouponRefused ==
    [][\A k \in CouponIds, o \in OrderIds(DB) :
         (last'.op = "add_coupon_redemption" /\ AddCouponRedemption(k, o)) =>
            IF Conflicts(k, o)
            THEN /\ last'.err = "MultipleCouponsNotAllowedException"
                 /\ UNCHANGED <<items, couponRedemptions>>
            ELSE last'.err = "ok"]_vars

\* C12 witness: a coupon was refused on an order that has a redemption and
\* an item the coupon would have discounted.
C12_Witness ==
    /\ last = [op |-> "add_coupon_redemption",
               err |-> "MultipleCouponsNotAllowedException"]
    /\ \E o \in OrderIds(DB) :
          /\ CouponRedemptionsOf(DB, o, orders[o].user) # {}
          /\ \E i \in ItemsOf(DB, o), k \in CouponIds :
                items[i].course_id = Coupons[k].course_id

\* item i is the one a coupon redemption recorded on its order discounted
CouponDiscounted(i) ==
    \E k \in 1..Len(couponRedemptions) :
       /\ couponRedemptions[k].order = items[i].order
       /\ Coupons[couponRedemptions[k].coupon].course_id = items[i].course_id
       /\ i = FirstItemForCourse(DB, ItemsOf(DB, items[i].order), items[i].course_id)

\* item i is the one a registration-code redemption recorded on its order
\* discounted
CodeDiscounted(i) ==
    \E k \in 1..Len(regRedemptions) :
       /\ regRedemptions[k].order = items[i].order
       /\ codes[regRedemptions[k].registration_code].course_id = items[i].course_id
       /\ i = FirstItemForCourse(DB, ItemsOf(DB, items[i].order), items[i].course_id)

\* C13: no item has been discounted both by a coupon and by a registration
\* code.
C13_DiscountsExclusive ==
    \A i \in LiveItems : ~(CouponDiscounted(i) /\ CodeDiscounted(i))

\* ------------------------------------------------------------------------
\* The discount arithmetic on its own: get_discount_price applied to a
\* price and a percentage, as add_coupon_redemption applies it (729-734).
\* ------------------------------------------------------------------------
\* unit costs in cents
Prices == {5, 10, 4997, 4999, 5000, 10000}
Percentages == 0..100

InitPrice ==
    /\ orders = <<>>
    /\ items = <<>>
    /\ codes = <<>>
    /\ regRedemptions = <<>>
    /\ couponRedemptions = <<>>
    /\ outbox = {}
    /\ enroll = [u \in Users |-> [c \in Courses |-> NoEnrollment]]
    /\ courses = Courses
    /\ cbRuns = <<>>
    /\ last = [op |-> "init", err |-> "ok"]
    /\ pc = [p \in Procs |-> IF p = "p1" THEN "price" ELSE "idle"]
    /\ \E v \in Prices, pct \in Percentages :
          loc = [p \in Procs |->
                   IF p = "p1" THEN [unit_cost |-> v, list_price |-> NoneVal,
                                     percentage_discount |-> pct, value |-> v]
                   ELSE <<>>]

\* models.py 731-733 on the item in hand
DiscountItem(p) ==
    /\ pc[p] = "price"
    /\ pc' = [pc EXCEPT ![p] = "priced"]
    /\ loc' = [loc EXCEPT ![p].list_price = loc[p].unit_cost,
                          ![p].unit_cost = get_discount_price(loc[p].percentage_discount,
                                                              loc[p].unit_cost)]
    /\ Called("get_discount_price", "ok")
    /\ UNCHANGED dbvars

NextPrice == DiscountItem("p1")

SpecPrice == InitPrice /\ [][NextPrice]_vars

\* value * percentage / 100 rounded to the cent, half up
HalfUp(percentage, value) == (percentage * value + 50) \div 100

\* C14: a coupon of p percent on an item priced v leaves list_price v and
\* unit_cost v minus v*p/100 rounded to the cent half-up.
C14_DiscountRoundsHalfUp ==
    pc["p1"] = "priced" =>
       /\ loc["p1"].list_price = loc["p1"].value
       /\ loc["p1"].unit_cost =
             loc["p1"].value - HalfUp(loc["p1"].percentage_discount, loc["p1"].value)

\* ------------------------------------------------------------------------
\* Further claims about the redemption ledger (SpecRedeem)
\* ------------------------------------------------------------------------
\* C15: add_reg_code_redemption with a code not yet redeemed, on an order
\* with an item of the code's course, makes the first such item free,
\* keeps its price as list_price and records one redemption for (code,
\* order, the order's user), leaving every other item alone; on an order
\* with no such item it raises ItemDoesNotExistAgainstRegCodeException and
\* records nothing.
C15_RedeemCode ==
    [][\A code \in CodeIds, o \in OrderIds(DB) :
         (/\ CodeRedemptions(DB, code) = {}
          /\ last'.op = "add_reg_code_redemption"
          /\ AddRegCodeRedemption(code, o)) =>
            LET i == FirstItemForCourse(DB, ItemsOf(DB, o), codes[code].course_id)
            IN IF i # 0
               THEN /\ last'.err = "ok"
                    /\ items' = [items EXCEPT ![i].list_price = items[i].unit_cost,
                                              ![i].unit_cost = 0]
                    /\ regRedemptions' =
                          Append(regRedemptions,
                                 [registration_code |-> code, order |-> o,
                                  redeemed_by |-> orders[o].user])
               ELSE /\ last'.err = "ItemDoesNotExistAgainstRegCodeException"
                    /\ UNCHANGED <<items, regRedemptions>>]_vars

\* C15 witness: a code was redeemed on an order and its item, priced
\* before, is free with the price kept.
C15_Witness ==
    /\ last = [op |-> "add_reg_code_redemption", err |-> "ok"]
    /\ \E k \in 1..Len(regRedemptions), i \in LiveItems :
          /\ regRedemptions[k].order = items[i].order
          /\ regRedemptions[k].redeemed_by = orders[items[i].order].user
          /\ codes[regRedemptions[k].registration_code].course_id = items[i].course_id
          /\ items[i].unit_cost = 0
          /\ items[i].list_price > 0

\* ------------------------------------------------------------------------
\* Claims about discounts taken off again (SpecUndo)
\* ------------------------------------------------------------------------
\* C16: delete_coupon_redemption and delete_registration_redemption delete
\* exactly the redemption records of the given user and cart, and leave
\* every item, its unit_cost and list_price included, as it was.
C16_DeleteKeepsPrices ==
    [][\A u \in Users, o \in OrderIds(DB) :
         /\ (last'.op = "delete_coupon_redemption" /\ DeleteCouponRedemption(u, o)) =>
               /\ UNCHANGED <<items, orders, regRedemptions>>
               /\ \A k \in 1..Len(couponRedemptions') :
                     ~(couponRedemptions'[k].user = u /\ couponRedemptions'[k].order = o)
               /\ \A k \in 1..Len(couponRedemptions) :
                     (couponRedemptions[k].user = u /\ couponRedemptions[k].order = o)
                     \/ \E j \in 1..Len(couponRedemptions') :
                           couponRedemptions'[j] = couponRedemptions[k]
         /\ (last'.op = "delete_registration_redemption"
                /\ DeleteRegistrationRedemption(u, o)) =>
               /\ UNCHANGED <<items, orders, couponRedemptions>>
               /\ \A k \in 1..Len(regRedemptions') :
                     ~(regRedemptions'[k].redeemed_by = u /\ regRedemptions'[k].order = o)
               /\ \A k \in 1..Len(regRedemptions) :
                     (regRedemptions[k].redeemed_by = u /\ regRedemptions[k].order = o)
                     \/ \E j \in 1..Len(regRedemptions') :
                           regRedemptions'[j] = regRedemptions[k]]_vars

\* C16 witness: the coupon redemption of a cart has been deleted and the
\* item it discounted still has the discounted unit_cost.
C16_Witness ==
    /\ last.op = "delete_coupon_redemption"
    /\ couponRedemptions = <<>>
    /\ outbox = {}
    /\ \E i \in LiveItems : /\ items[i].list_price > 0
                            /\ items[i].unit_cost > 0
                            /\ items[i].unit_cost < items[i].list_price

\* ------------------------------------------------------------------------
\* Orders that have left the cart, and the cart operations called on them
\* all the same: none of them looks at the status of the order it is given.
\* ------------------------------------------------------------------------
NextFrozen ==
    \/ \E u \in Shoppers : GetCart(u)
    \/ \E o \in OrderIds(DB), c \in Courses : AddSeat(o, c)
    \/ \E o \in OrderIds(DB) : StartPurchase(o)
    \/ \E c \in OnSale : GenerateInvoiceCode("u1", c)
    \/ \E k \in CouponIds, o \in OrderIds(DB) : AddCouponRedemption(k, o)
    \/ \E code \in CodeIds, o \in OrderIds(DB) : AddRegCodeRedemption(code, o)
    \/ \E o \in OrderIds(DB) : ResetCartItemsPrices(o)
    \/ \E o \in OrderIds(DB) : Clear(o)

SpecFrozen == Init /\ [][NextFrozen]_vars

\* C17: while an order is not a cart, no step changes the set of its items
\* or the unit_cost or list_price of any of them.
C17_FrozenAfterCart ==
    [][\A o \in OrderIds(DB) :
         orders[o].status # "cart" =>
            /\ ItemsOf([DB EXCEPT !.items = items'], o) = ItemsOf(DB, o)
            /\ \A i \in ItemsOf(DB, o) :
                  /\ items'[i].unit_cost = items[i].unit_cost
                  /\ items'[i].list_price = items[i].list_price]_vars

\* ------------------------------------------------------------------------
\* Business and personal orders: seats, bundles of enrollment codes,
\* Order.clear, Order.update_order_type and Order.purchase.
\* ------------------------------------------------------------------------
MaxBulkOrders == 1
MaxBulkItems == 3
MaxBulkCodes == 3

InBulkBounds(d) ==
    /\ Len(d.orders) <= MaxBulkOrders
    /\ Len(d.items) <= MaxBulkItems
    /\ Len(d.codes) <= MaxBulkCodes

BulkGetCart(u) ==
    LET r == get_cart_for_user(DB, u)
    IN /\ InBulkBounds(r.db)
       /\ Commit(r.db)
       /\ Called("get_cart_for_user", "ok")
       /\ UNCHANGED procvars

BulkAddSeat(o, c) ==
    LET r == SeatAddToOrder(DB, o, c, "honor", NoneVal, "")
    IN /\ InBulkBounds(r.db)
       /\ Commit(r.db)
       /\ Called("seat.add_to_order", r.err)
       /\ UNCHANGED procvars

BulkAddBundle(o, c, qty) ==
    LET r == BundleAddToOrder(DB, o, c, qty, "honor", NoneVal, "")
    IN /\ InBulkBounds(r.db)
       /\ Commit(r.db)
       /\ Called("bundle.add_to_order", r.err)
       /\ UNCHANGED procvars

BulkUpdateOrderType(o) ==
    LET r == update_order_type(DB, o)
    IN /\ InBulkBounds(r.db)
       /\ Commit(r.db)
       /\ Called("update_order_type", r.err)
       /\ UNCHANGED procvars

BulkPurchase(o) ==
    LET r == purchase(DB, o)
    IN /\ InBulkBounds(r.db)
       /\ Commit(r.db)
       /\ Called(IF orders[o].status = "purchased" THEN "purchase.again" ELSE "purchase", r.err)
       /\ UNCHANGED procvars

NextBulk ==
    \/ \E u \in Shoppers : BulkGetCart(u)
    \/ \E o \in Carts, c \in Courses : BulkAddSeat(o, c)
    \/ \E o \in Carts, c \in Courses, q \in 1..MaxQty : BulkAddBundle(o, c, q)
    \/ \E o \in Carts : Clear(o)
    \/ \E o \in Carts : BulkUpdateOrderType(o)
    \/ \E o \in OrderIds(DB) : BulkPurchase(o)

SpecBulk == Init /\ [][NextBulk]_vars

\* the items of order o after the step
ItemsAfter(o) == ItemsOf([DB EXCEPT !.items = items'], o)

\* C18 as stated: a purchase that succeeds leaves an order whose quantities
\* are all 1 personal, and an order with a quantity above 1 business and
\* without seat items, each seat replaced by a bundle of its course and
\* quantity.
C18_PurchaseReclassifies ==
    [][\A o \in OrderIds(DB) :
         (/\ last'.op = "purchase"
          /\ last'.err = "ok"
          /\ BulkPurchase(o)) =>
            IF \E i \in ItemsOf(DB, o) : items[i].qty > 1
            THEN /\ orders'[o].order_type = BUSINESS
                 /\ \A j \in ItemsAfter(o) : items'[j].kind # SEAT
                 /\ \A i \in ItemsOf(DB, o) :
                       items[i].kind = SEAT =>
                          \E j \in ItemsAfter(o) :
                             /\ items'[j].kind = BUNDLE
                             /\ items'[j].course_id = items[i].course_id
                             /\ items'[j].qty = items[i].qty
            ELSE orders'[o].order_type = PERSONAL]_vars

\* C18 amended: purchase runs the reclassification pass only on an order
\* that is 'business' already.  When such a purchase succeeds, an order
\* with a quantity above 1 stays business, each seat item deleted and a
\* bundle of its course and quantity in its place; an order whose
\* quantities are all 1 becomes personal, each bundle item deleted and a
\* seat of its course in its place.  An order that is 'personal' is
\* purchased as it is: same type, same items, same quantities.
C18_PassOnBusinessOrdersOnly ==
    [][\A o \in OrderIds(DB) :
         (/\ last'.op = "purchase"
          /\ last'.err = "ok"
          /\ BulkPurchase(o)) =>
            IF orders[o].order_type = BUSINESS
            THEN LET big == \E i \in ItemsOf(DB, o) : items[i].qty > 1
                     from == IF big THEN SEAT ELSE BUNDLE
                     to == IF big THEN BUNDLE ELSE SEAT
                 IN /\ orders'[o].order_type = IF big THEN BUSINESS ELSE PERSONAL
                    /\ \A j \in ItemsAfter(o) : items'[j].kind # from
                    /\ \A i \in ItemsOf(DB, o) :
                          IF items[i].kind = from
                          THEN /\ items'[i].deleted
                               /\ \E j \in ItemsAfter(o) :
                                     /\ items'[j].kind = to
                                     /\ items'[j].course_id = items[i].course_id
                                     /\ items'[j].qty = items[i].qty
                          ELSE i \in ItemsAfter(o)
            ELSE /\ orders'[o].order_type = PERSONAL
                 /\ ItemsAfter(o) = ItemsOf(DB, o)
                 /\ \A i \in ItemsOf(DB, o) :
                       /\ items'[i].kind = items[i].kind
                       /\ items'[i].qty = items[i].qty]_vars

\* C18 witness: a business order was purchased and the seat it held is now a
\* bundle item, purchased with the order.
C18_Witness ==
    /\ last = [op |-> "purchase", err |-> "ok"]
    /\ \E o \in OrderIds(DB) :
          /\ orders[o].order_type = BUSINESS
          /\ orders[o].status = "purchased"
          /\ \E i \in 1..Len(items) : items[i].deleted
          /\ \E j \in ItemsOf(DB, o) : items[j].kind = BUNDLE /\ items[j].qty = 1
          /\ \E j \in ItemsOf(DB, o) : items[j].kind = BUNDLE /\ items[j].qty > 1

\* ------------------------------------------------------------------------
\* Currencies: the add_to_order of each item class, called with a currency,
\* and Order.clear.
\* ------------------------------------------------------------------------
Currencies == {"usd", "eur"}
DonationAmounts == {500}

\* Donation.add_to_order, models.py 1236-1281; c = "" is course_id None.
\* The order is not written: its currency stays what it was.
DonationAddToOrder(d, o, donation_amount, c, currency) ==
    IF CurrencyMismatch(d, o, currency) THEN Raise(d, "InvalidCartItem")
    ELSE IF c # "" /\ ~CourseExists(d, c) THEN Raise(d, "CourseDoesNotExistException")
    ELSE Ok([d EXCEPT
               !.items = Append(@, [NewItem(o, d.orders[o].user, DONATION, c) EXCEPT
                                      !.status = d.orders[o].status,
                                      !.qty = 1,
                                      !.unit_cost = donation_amount,
                                      !.currency = currency]),
               !.cbRuns = Append(@, 0)])

AddSeatIn(o, c, currency) ==
    LET r == SeatAddToOrder(DB, o, c, "honor", NoneVal, currency)
    IN /\ InBounds(r.db)
       /\ Commit(r.db)
       /\ Called("seat.add_to_order", r.err)
       /\ UNCHANGED procvars

AddBundleIn(o, c, currency) ==
    LET r == BundleAddToOrder(DB, o, c, 1, "honor", NoneVal, currency)
    IN /\ InBounds(r.db)
       /\ Commit(r.db)
       /\ Called("bundle.add_to_order", r.err)
       /\ UNCHANGED procvars

AddCertIn(o, c, currency) ==
    LET r == CertAddToOrder(DB, o, c, 5000, "verified", currency)
    IN /\ InBounds(r.db)
       /\ Commit(r.db)
       /\ Called("cert.add_to_order", r.err)
       /\ UNCHANGED procvars

AddDonation(o, donation_amount, c, currency) ==
    LET r == DonationAddToOrder(DB, o, donation_amount, c, currency)
    IN /\ InBounds(r.db)
       /\ Commit(r.db)
       /\ Called("donation.add_to_order", r.err)
       /\ UNCHANGED procvars

NextCurrency ==
    \/ \E u \in Shoppers : GetCart(u)
    \/ \E o \in Carts, c \in Courses, cur \in Currencies : AddSeatIn(o, c, cur)
    \/ \E o \in Carts, c \in Courses, cur \in Currencies : AddBundleIn(o, c, cur)
    \/ \E o \in Carts, c \in Courses, cur \in Currencies : AddCertIn(o, c, cur)
    \/ \E o \in Carts, a \in DonationAmounts, c \in Courses \cup {""}, cur \in Currencies :
          AddDonation(o, a, c, cur)
    \/ \E o \in Carts : Clear(o)

SpecCurrency == Init /\ [][NextCurrency]_vars

\* what an add_to_order called with currency cur on order o must have done:
\* refused with InvalidCartItem when the cart held items of another
\* currency, and left the order in currency cur when it succeeded
CurrencyRule(o, cur) ==
    /\ CurrencyMismatch(DB, o, cur) => last'.err = "InvalidCartItem"
    /\ last'.err = "ok" => orders'[o].currency = cur

\* C19: every variant's add_to_order refuses an item whose currency differs
\* from that of a cart that holds items (unless another of its validations
\* refused the item first), and an add_to_order that succeeds, on an empty
\* cart in particular, leaves the order in the item's currency.
C19_CurrencyGuard ==
    [][\A o \in Carts, c \in Courses \cup {""}, cur \in Currencies :
         /\ (last'.op = "seat.add_to_order" /\ c # "" /\ AddSeatIn(o, c, cur)) =>
               \/ CurrencyRule(o, cur)
               \/ last'.err \in {"ItemAlreadyInCartException", "AlreadyEnrolledInCourseException"}
         /\ (last'.op = "bundle.add_to_order" /\ c # "" /\ AddBundleIn(o, c, cur)) =>
               \/ CurrencyRule(o, cur)
               \/ last'.err \in {"ItemAlreadyInCartException", "AlreadyEnrolledInCourseException"}
         /\ (last'.op = "cert.add_to_order" /\ c # "" /\ AddCertIn(o, c, cur)) =>
               CurrencyRule(o, cur)
         /\ \A a \in DonationAmounts :
               (last'.op = "donation.add_to_order" /\ AddDonation(o, a, c, cur)) =>
                  CurrencyRule(o, cur)]_vars

\* C20: every item of an order carries the order's currency.
C20_ItemCurrencyIsOrderCurrency ==
    \A i \in LiveItems : items[i].currency = orders[items[i].order].currency

\* ------------------------------------------------------------------------
\* Order.total_cost
\* ------------------------------------------------------------------------
RECURSIVE CostOfRows(_, _)
\* the cost of the first n rows of the item table that belong to order o
\* and carry its status
CostOfRows(o, n) ==
    IF n = 0 THEN 0
    ELSE CostOfRows(o, n - 1) +
         IF /\ ~items[n].deleted
            /\ items[n].order = o
            /\ items[n].status = orders[o].status
         THEN items[n].qty * items[n].unit_cost
         ELSE 0

\* C21: the total cost of an order is the sum of qty * unit_cost over the
\* items of the order whose status is the order's status, 0 when there is
\* none.
C21_TotalCost ==
    \A o \in OrderIds(DB) :
       /\ total_cost(DB, o) = CostOfRows(o, Len(items))
       /\ (\A i \in ItemsOf(DB, o) : items[i].status # orders[o].status) =>
             total_cost(DB, o) = 0

\* C21 witness: an order with two items of its status, one of quantity 2
C21_Witness ==
    \E o \in OrderIds(DB) :
       \E i, j \in ItemsOf(DB, o) :
          /\ i # j
          /\ items[i].status = orders[o].status
          /\ items[j].status = orders[o].status
          /\ items[i].qty = 2
          /\ total_cost(DB, o) = 2 * items[i].unit_cost + items[j].qty * items[j].unit_cost
          /\ total_cost(DB, o) > 0

\* C21 witness: the items of an order do not carry its status and its total
\* is 0
C21_WitnessOtherStatus ==
    \E o \in OrderIds(DB) :
       /\ ItemsOf(DB, o) # {}
       /\ \A i \in ItemsOf(DB, o) : items[i].status # orders[o].status
       /\ total_cost(DB, o) = 0

\* ------------------------------------------------------------------------
\* Refused calls: every add_to_order and both discount calls, with the
\* arguments that make their validations fail.
\* ------------------------------------------------------------------------
AddCertAs(o, c, mode, currency) ==
    LET r == CertAddToOrder(DB, o, c, 5000, mode, currency)
    IN /\ InBounds(r.db)
       /\ Commit(r.db)
       /\ Called("cert.add_to_order", r.err)
       /\ UNCHANGED procvars

NextReject ==
    \/ \E u \in Shoppers : GetCart(u)
    \/ \E o \in Carts, c \in OnSale, cur \in Currencies : AddSeatIn(o, c, cur)
    \/ \E o \in Carts, c \in OnSale : AddBundle(o, c, 1)
    \/ \E o \in Carts, c \in OnSale, mode \in {"verified", "audit"} :
          AddCertAs(o, c, mode, "usd")
    \/ \E o \in Carts, a \in DonationAmounts : AddDonation(o, a, "", "eur")
    \/ \E c \in OnSale : GenerateInvoiceCode("u1", c)
    \/ \E coupon \in CouponIds, o \in Carts : AddCouponRedemption(coupon, o)
    \/ \E code \in CodeIds, o \in Carts : AddRegCodeRedemption(code, o)
    \/ \E c \in OnSale : RemoveCourse(c)

SpecReject == Init /\ [][NextReject]_vars

\* the calls that add an item or a discount to a cart
CartCalls ==
    {"seat.add_to_order", "bundle.add_to_order", "cert.add_to_order",
     "donation.add_to_order", "add_coupon_redemption", "add_reg_code_redemption"}

\* the validation and conflict errors of those calls
CartErrors ==
    {"CourseDoesNotExistException", "ItemAlreadyInCartException",
     "AlreadyEnrolledInCourseException", "InvalidCartItem",
     "MultipleCouponsNotAllowedException", "RegCodeAlreadyExistException",
     "ItemDoesNotExistAgainstRegCodeException"}

\* C22: an add_to_order or discount call that ends in a validation or
\* conflict error leaves the orders, the items with their prices and the
\* redemption records as they were.
C22_RefusedCallChangesNothing ==
    [][(last'.op \in CartCalls /\ last'.err \in CartErrors) =>
          /\ orders' = orders
          /\ items' = items
          /\ regRedemptions' = regRedemptions
          /\ couponRedemptions' = couponRedemptions]_vars

\* C22 witness: a cart that holds a discounted item has just refused a call
C22_Witness ==
    /\ last.op \in CartCalls
    /\ last.err \in CartErrors
    /\ \E i \in LiveItems : items[i].list_price # NoneVal
    /\ Len(regRedemptions) + Len(couponRedemptions) > 0

\* ------------------------------------------------------------------------
\* The registration codes minted by a purchase
\* ------------------------------------------------------------------------
\* the keys of the registration codes that reference order o and course c
\* after the step; the key of a row stands for its unique code value
\* (models.py 567)
CodesAfter(o, c) ==
    {k \in 1..Len(codes') : codes'[k].order = o /\ codes'[k].course_id = c}

DBAfter ==
    [DB EXCEPT !.orders = orders', !.items = items', !.enroll = enroll']

\* C24: a seat added to an empty cart makes the cart total the seat price;
\* the purchase of a cart or paying order whose one item is a seat of a
\* course that exists succeeds and leaves the order 'purchased', the item
\* 'purchased' and the user enrolled in the course at the item's mode.
C24_OneSeatPurchase ==
    [][/\ \A o \in Carts, c \in OnSale :
            (/\ last'.op = "seat.add_to_order"
             /\ last'.err = "ok"
             /\ ItemsOf(DB, o) = {}
             /\ AddSeat(o, c)) =>
               /\ Cardinality(ItemsOf(DBAfter, o)) = 1
               /\ total_cost(DBAfter, o) = ModeForCourse(c, "honor").min_price
       /\ \A o \in OrderIds(DB) :
            (/\ last'.op = "purchase"
             /\ orders[o].status \in {"cart", "paying"}
             /\ Cardinality(ItemsOf(DB, o)) = 1
             /\ \A i \in ItemsOf(DB, o) :
                   items[i].kind = SEAT /\ CourseExists(DB, items[i].course_id)
             /\ Purchase(o)) =>
               /\ last'.err = "ok"
               /\ orders'[o].status = "purchased"
               /\ \A i \in ItemsOf(DB, o) :
                     /\ items'[i].status = "purchased"
                     /\ enroll'[orders[o].user][items[i].course_id] =
                           [exists |-> TRUE, is_active |-> TRUE, mode |-> items[i].mode]]_vars

\* C24 witness: the one seat of an order was purchased and its user is
\* enrolled in the course
C24_Witness ==
    /\ last = [op |-> "purchase", err |-> "ok"]
    /\ \E o \in OrderIds(DB) :
          /\ orders[o].status = "purchased"
          /\ Cardinality(ItemsOf(DB, o)) = 1
          /\ \A i \in ItemsOf(DB, o) :
                /\ items[i].kind = SEAT
                /\ items[i].status = "purchased"
                /\ items[i].unit_cost = 5000
                /\ IsEnrolled(DB, orders[o].user, items[i].course_id)

\* ------------------------------------------------------------------------
\* Checkout: Order.purchase with its billing arguments, the setting
\* STORE_BILLING_INFO and the confirmation e-mail.
\* ------------------------------------------------------------------------
\* the billing arguments of Order.purchase, models.py 322-323: name is
\* (first, last), city is (city, state, postalcode, country), street is
\* (street1, street2), card is (ccnum, cardtype), dump is
\* processor_reply_dump; the first value is the defaults
BillingArgs ==
    {[name |-> "", city |-> "", street |-> "", card |-> "", dump |-> ""],
     [name |-> "Ann Lee", city |-> "Cambridge MA 02142 US", street |-> "11 Cambridge Center",
      card |-> "1111 001", dump |-> "reply"]}

\* how email.send() ends, models.py 317: the message is sent, or the mail
\* backend raises; socket.error is what smtplib raises when the mail server
\* cannot be reached
MailOutcomes == {"sent", "SMTPException", "BotoServerError", "socket.error"}

\* mutant: the full snapshot is stored whatever the setting
bill_to_full(ord, b, STORE_BILLING_INFO) ==
    [ord EXCEPT !.bill_to_name = b.name, !.bill_to_city = b.city,
                !.bill_to_street = b.street, !.bill_to_card = b.card,
                !.processor_reply_dump = b.dump]

\* Order.purchase, models.py 345-355: the billing columns it assigns
bill_to(ord, b, STORE_BILLING_INFO) ==
    LET always == [ord EXCEPT !.bill_to_name = b.name, !.bill_to_city = b.city]
    IN IF STORE_BILLING_INFO
       THEN [always EXCEPT !.bill_to_street = b.street,
                           !.bill_to_card = b.card,
                           !.processor_reply_dump = b.dump]
       ELSE always

\* Order.generate_registration_codes_csv, models.py 241-259, called for a
\* business order (lines 374-379): get_course_by_id raises for an item
\* whose course is not found
generate_registration_codes_csv(d, o) ==
    IF /\ d.orders[o].order_type = BUSINESS
       /\ \E i \in ItemsOf(d, o) : ~CourseExists(d, d.items[i].course_id)
    THEN Raise(d, "Http404")
    ELSE Ok(d)

\* Order.send_confirmation_emails, models.py 285-320: the except clause of
\* line 318 catches SMTPException and BotoServerError and nothing else
send_confirmation_emails(d, o, mail) ==
    CASE mail = "sent" -> Ok([d EXCEPT !.outbox = @ \cup {o}])
      [] mail \in {"SMTPException", "BotoServerError"} -> Ok(d)
      [] OTHER -> Raise(d, mail)

\* Order.purchase, models.py 322-381, with its arguments
purchase_and_notify(d, o, b, STORE_BILLING_INFO, mail) ==
    IF d.orders[o].status = "purchased" THEN Ok(d)
    ELSE Then(purchase([d EXCEPT !.orders[o] = bill_to(@, b, STORE_BILLING_INFO)], o),
              LAMBDA x : Then(generate_registration_codes_csv(x, o),
                              LAMBDA y : send_confirmation_emails(y, o, mail)))

Checkout(o, b, STORE_BILLING_INFO, mail) ==
    LET r == purchase_and_notify(DB, o, b, STORE_BILLING_INFO, mail)
    IN /\ InBounds(r.db)
       /\ Commit(r.db)
       /\ Called(IF orders[o].status = "purchased" THEN "purchase.again" ELSE "purchase", r.err)
       /\ UNCHANGED procvars

NextCheckout ==
    \/ \E u \in Shoppers : GetCart(u)
    \/ \E o \in Carts, c \in Courses : AddSeat(o, c)
    \/ \E o \in OrderIds(DB) : FreeUserEnrollment(o)
    \/ \E o \in Carts, b \in BillingArgs, store \in BOOLEAN, mail \in MailOutcomes :
          Checkout(o, b, store, mail)
    \/ \E c \in OnSale : RemoveCourse(c)

SpecCheckout == Init /\ [][NextCheckout]_vars

\* C25: free_user_enrollment on an order that has items enrolls the user in
\* the course of every item and marks every item and the order 'purchased',
\* the order with its purchase time; no purchased_callback runs (no item
\* gets a fulfilled time), no billing column is written and no e-mail is
\* sent.
C25_FreeEnrollmentShortcut ==
    [][\A o \in OrderIds(DB) :
         (/\ last'.op = "free_user_enrollment"
          /\ ItemsOf(DB, o) # {}
          /\ FreeUserEnrollment(o)) =>
            /\ orders'[o] = [orders[o] EXCEPT !.status = "purchased", !.purchase_time = 1]
            /\ \A i \in ItemsOf(DB, o) :
                  /\ items'[i] = [items[i] EXCEPT !.status = "purchased"]
                  /\ IsEnrolled(DBAfter, orders[o].user, items[i].course_id)
            /\ cbRuns' = cbRuns
            /\ outbox' = outbox
            /\ codes' = codes]_vars

\* C25 witness: an order was purchased by free_user_enrollment: its item is
\* 'purchased' and was never fulfilled, its user is enrolled
C25_Witness ==
    /\ last.op = "free_user_enrollment"
    /\ \E o \in OrderIds(DB) :
          /\ orders[o].status = "purchased"
          /\ orders[o].purchase_time = 1
          /\ orders[o].bill_to_name = ""
          /\ o \notin outbox
          /\ \E i \in ItemsOf(DB, o) :
                /\ items[i].status = "purchased"
                /\ items[i].fulfilled_time = 0
                /\ cbRuns[i] = 0
                /\ IsEnrolled(DB, orders[o].user, items[i].course_id)

\* the purchase of order o with these arguments gets as far as the
\* confirmation e-mail: the reclassification, the items' fulfilment and the
\* CSV file raise nothing
ReachesEmail(o, b, STORE_BILLING_INFO) ==
    /\ orders[o].status # "purchased"
    /\ Then(purchase([DB EXCEPT !.orders[o] = bill_to(@, b, STORE_BILLING_INFO)], o),
            LAMBDA x : generate_registration_codes_csv(x, o)).err = "ok"

\* C26: whatever way the sending of the confirmation e-mail fails, purchase
\* returns normally and the order and its items are 'purchased'.
C26_MailFailureIsCaught ==
    [][\A o \in Carts, b \in BillingArgs, store \in BOOLEAN,
          mail \in MailOutcomes \ {"sent"} :
         (/\ last'.op = "purchase"
          /\ ReachesEmail(o, b, store)
          /\ Checkout(o, b, store, mail)) =>
            /\ last'.err = "ok"
            /\ orders'[o].status = "purchased"
            /\ \A i \in ItemsAfter(o) : items'[i].status = "purchased"]_vars

\* C27: a purchase with STORE_BILLING_INFO disabled stores the name and the
\* city, state, postal code and country it is given and leaves the card
\* columns and processor_reply_dump (and the street lines) as they were,
\* whatever the caller passes; with the setting enabled it stores every
\* billing argument.
C27_BillingSnapshot ==
    [][\A o \in Carts, b \in BillingArgs, store \in BOOLEAN, mail \in MailOutcomes :
         (/\ last'.op = "purchase"
          /\ orders'[o].status = "purchased"
          /\ Checkout(o, b, store, mail)) =>
            /\ orders'[o].bill_to_name = b.name
            /\ orders'[o].bill_to_city = b.city
            /\ IF store
               THEN /\ orders'[o].bill_to_street = b.street
                    /\ orders'[o].bill_to_card = b.card
                    /\ orders'[o].processor_reply_dump = b.dump
               ELSE /\ orders'[o].bill_to_street = orders[o].bill_to_street
                    /\ orders'[o].bill_to_card = orders[o].bill_to_card
                    /\ orders'[o].processor_reply_dump = orders[o].processor_reply_dump]_vars

\* C27 witness: an order was purchased with a name and no card data stored
C27_Witness ==
    /\ last.op = "purchase"
    /\ \E o \in OrderIds(DB) :
          /\ orders[o].status = "purchased"
          /\ orders[o].bill_to_name # ""
          /\ orders[o].bill_to_city # ""
          /\ orders[o].bill_to_card = ""
          /\ orders[o].processor_reply_dump = ""

\* C27 witness: an order was purchased with the full snapshot stored
C27_WitnessFull ==
    /\ last.op = "purchase"
    /\ \E o \in OrderIds(DB) :
          /\ orders[o].status = "purchased"
          /\ orders[o].bill_to_name # ""
          /\ orders[o].bill_to_card # ""
          /\ orders[o].processor_reply_dump # ""

\* ------------------------------------------------------------------------
\* Refunds
\* ------------------------------------------------------------------------
\* the 'purchased' verified certificate items of user u for course c
PurchasedCerts(u, c) ==
    {i \in LiveItems : /\ items[i].kind = CERT
                       /\ items[i].course_id = c
                       /\ items[i].user = u
                       /\ items[i].status = "purchased"
                       /\ items[i].mode = "verified"}

\* C28: an order becomes 'refunded' only from 'purchased' and only in the
\* refund handler that an unenrollment triggers.  When the enrollment is
\* refundable and the user has a 'purchased' verified certificate item for
\* the course, the handler makes one such item and its order 'refunded' and
\* changes no other order or item; otherwise it changes no order and no
\* item.
C28_RefundOnlyByUnenrollment ==
    [][/\ \A o \in OrderIds(DB) :
            (orders'[o].status = "refunded" /\ orders[o].status # "refunded") =>
               /\ orders[o].status = "purchased"
               /\ last'.op = "unenroll"
       /\ \A u \in Users, c \in Courses, refundable \in BOOLEAN :
            (/\ last'.op = "unenroll"
             /\ Unenroll(u, c, refundable)) =>
               IF refundable /\ PurchasedCerts(u, c) # {}
               THEN \E t \in PurchasedCerts(u, c) :
                       /\ items' = [items EXCEPT ![t].status = "refunded",
                                                 ![t].refund_requested_time = 1]
                       /\ orders' = [orders EXCEPT ![items[t].order].status = "refunded"]
               ELSE /\ orders' = orders
                    /\ items' = items]_vars

\* C28 witness: an unenrollment has just refunded a certificate item and
\* its order
C28_Witness ==
    /\ last.op = "unenroll"
    /\ \E i \in LiveItems :
          /\ items[i].kind = CERT
          /\ items[i].status = "refunded"
          /\ items[i].refund_requested_time = 1
          /\ orders[items[i].order].status = "refunded"

\* C28 witness: an unenrollment that is not refundable left a 'purchased'
\* certificate item as it was
C28_WitnessNotRefundable ==
    /\ last.op = "unenroll"
    /\ \E i \in LiveItems :
          /\ items[i].kind = CERT
          /\ items[i].status = "purchased"
          /\ ~IsEnrolled(DB, items[i].user, items[i].course_id)
          /\ orders[items[i].order].status = "purchased"

\* ------------------------------------------------------------------------
\* Cart lookup
\* ------------------------------------------------------------------------
\* C29: get_cart_for_user returns an order of the user in status 'cart',
\* the newest one; it creates the order when the user has no cart and
\* creates nothing otherwise; it never returns an order that is paying,
\* purchased or refunded, so after start_purchase or a refund of an order
\* the user's next cart is another order.
C29_CartLookup ==
    [][\A u \in Users :
         (/\ last'.op = "get_cart_for_user"
          /\ GetCart(u)) =>
            LET cart == get_cart_for_user(DB, u).id
                had == {o \in OrderIds(DB) : orders[o].user = u /\ orders[o].status = "cart"}
            IN /\ cart \in 1..Len(orders')
               /\ orders'[cart].user = u
               /\ orders'[cart].status = "cart"
               /\ \A o \in 1..Len(orders') :
                     (orders'[o].user = u /\ orders'[o].status = "cart") => o <= cart
               /\ IF had = {}
                  THEN /\ cart = Len(orders) + 1
                       /\ orders' = Append(orders, NewOrder(u))
                  ELSE /\ cart \in had
                       /\ orders' = orders
               /\ \A o \in OrderIds(DB) :
                     orders[o].status \in {"paying", "purchased", "refunded"} => cart # o
               /\ items' = items]_vars

\* C29 witness: the user's order is paying and the cart lookup has just
\* given the user a new order in status 'cart'
C29_Witness ==
    /\ last.op = "get_cart_for_user"
    /\ \E o, q \in OrderIds(DB) :
          /\ o < q
          /\ orders[o].user = orders[q].user
          /\ orders[o].status = "paying"
          /\ orders[q].status = "cart"
          /\ q = Len(orders)
          /\ ItemsOf(DB, q) = {}

\* C29 witness: the same after a refund
C29_WitnessRefund ==
    /\ last.op = "get_cart_for_user"
    /\ \E o, q \in OrderIds(DB) :
          /\ o < q
          /\ orders[o].user = orders[q].user
          /\ orders[o].status = "refunded"
          /\ orders[q].status = "cart"
          /\ q = Len(orders)
          /\ ItemsOf(DB, q) = {}

\* ------------------------------------------------------------------------
\* A purchase whose k-th item cannot be fulfilled
\* ------------------------------------------------------------------------
\* the items of order o whose purchased_callback raises: the seats and
\* bundles of a course that is gone
Unfulfillable(o) ==
    {i \in ItemsOf(DB, o) : /\ items[i].kind \in {SEAT, BUNDLE}
                            /\ ~CourseExists(DB, items[i].course_id)}

\* C30: when the purchased_callback of an item raises during purchase, the
\* order is 'purchased', the items fulfilled before it are 'purchased' with
\* their fulfilled time and their enrollment in place, and the failing item
\* (and every item after it) is as it was.
C30_NoCompensation ==
    [][\A o \in Carts :
         (/\ last'.op = "purchase"
          /\ last'.err = "PurchasedCallbackException"
          /\ \E b \in BillingArgs, store \in BOOLEAN : Checkout(o, b, store, "sent")) =>
            /\ Unfulfillable(o) # {}
            /\ orders'[o].status = "purchased"
            /\ o \notin outbox'
            /\ LET k == CHOOSE i \in Unfulfillable(o) : \A j \in Unfulfillable(o) : i <= j
               IN \A i \in ItemsOf(DB, o) :
                     IF i < k
                     THEN /\ items'[i] = [items[i] EXCEPT !.status = "purchased",
                                                          !.fulfilled_time = 1]
                          /\ cbRuns'[i] = Min(cbRuns[i] + 1, MaxCallbackRuns)
                          /\ IsEnrolled(DBAfter, items[i].user, items[i].course_id)
                     ELSE /\ items'[i] = items[i]
                          /\ cbRuns'[i] = cbRuns[i]]_vars

\* C30 witness: a purchase has just failed at the second item of the order;
\* the first item is 'purchased' and its user enrolled, the second is still
\* in the cart
C30_Witness ==
    /\ last = [op |-> "purchase", err |-> "PurchasedCallbackException"]
    /\ \E o \in OrderIds(DB) :
          /\ orders[o].status = "purchased"
          /\ \E i, k \in ItemsOf(DB, o) :
                /\ i < k
                /\ items[i].status = "purchased"
                /\ items[i].fulfilled_time = 1
                /\ IsEnrolled(DB, items[i].user, items[i].course_id)
                /\ items[k].status = "cart"
                /\ items[k].fulfilled_time = 0

\* ------------------------------------------------------------------------
\* A coupon on a cart that holds several items of the coupon's course
\* ------------------------------------------------------------------------
NextCoupon ==
    \/ \E u \in Shoppers : GetCart(u)
    \/ \E o \in Carts, c \in Courses : AddSeat(o, c)
    \/ \E o \in Carts, c \in OnSale : AddBundle(o, c, 1)
    \/ \E k \in CouponIds, o \in Carts : AddCouponRedemption(k, o)
    \/ \E o \in Carts : Clear(o)

SpecCoupon == Init /\ [][NextCoupon]_vars

\* C31: add_coupon_redemption, when it is not refused, lowers the price of
\* the first item of the cart whose course is the coupon's and of no other
\* item, records one redemption and returns True; when no item is of the
\* coupon's course it returns False, records nothing and changes no price.
C31_FirstMatchingItemOnly ==
    [][\A k \in CouponIds, o \in Carts :
         (/\ last'.op = "add_coupon_redemption"
          /\ last'.err = "ok"
          /\ AddCouponRedemption(k, o)) =>
            LET match == {i \in ItemsOf(DB, o) : items[i].course_id = Coupons[k].course_id}
                ret == add_coupon_redemption(DB, k, o).ret
            IN IF match = {}
               THEN /\ ret = FALSE
                    /\ couponRedemptions' = couponRedemptions
                    /\ items' = items
               ELSE LET first == CHOOSE i \in match : \A j \in match : i <= j
                    IN /\ ret = TRUE
                       /\ couponRedemptions' =
                             Append(couponRedemptions,
                                    [order |-> o, user |-> orders[o].user, coupon |-> k])
                       /\ items'[first].list_price = items[first].unit_cost
                       /\ items'[first].unit_cost =
                             get_discount_price(Coupons[k].percentage_discount,
                                                items[first].unit_cost)
                       /\ \A i \in 1..Len(items) : i # first => items'[i] = items[i]]_vars

\* C31 witness: a cart holds two items of one course, a coupon was recorded
\* and lowered the price of the first and not of the second
C31_Witness ==
    /\ last = [op |-> "add_coupon_redemption", err |-> "ok"]
    /\ Len(couponRedemptions) = 1
    /\ \E i, j \in LiveItems :
          /\ i < j
          /\ items[i].order = items[j].order
          /\ items[i].course_id = items[j].course_id
          /\ items[i].list_price # NoneVal
          /\ items[i].unit_cost < items[i].list_price
          /\ items[j].list_price = NoneVal

\* C31 witness: a coupon of a course the cart holds no item of was applied
\* and nothing was recorded
C31_WitnessNoMatch ==
    /\ last = [op |-> "add_coupon_redemption", err |-> "ok"]
    /\ couponRedemptions = <<>>
    /\ LiveItems # {}
    /\ \A i \in LiveItems : items[i].list_price = NoneVal

\* ------------------------------------------------------------------------
\* One item per course and kind in an order
\* ------------------------------------------------------------------------
\* the items of order o that are of the given kind and course
ItemsOfKind(o, kind, c) ==
    {i \in ItemsOf(DB, o) : items[i].kind = kind /\ items[i].course_id = c}

NoDuplicateCourseItems ==
    \A o \in OrderIds(DB), c \in Courses, kind \in {SEAT, BUNDLE} :
        Cardinality(ItemsOfKind(o, kind, c)) <= 1

PurchasedSeats(u, c) ==
    {i \in LiveItems : /\ items[i].kind = SEAT
                           /\ items[i].user = u
                           /\ items[i].course_id = c
                           /\ items[i].status = "purchased"}

\* C33: over get_cart_for_user, seat add_to_order, start_purchase and
\* purchase by one user, the user never holds two purchased seat items of
\* one course.
C33_NoDoublePurchase ==
    \A u \in Users, c \in Courses : Cardinality(PurchasedSeats(u, c)) <= 1

\* ------------------------------------------------------------------------
\* Interrupted discount applications.  Neither add_coupon_redemption (713)
\* nor add_reg_code_redemption (613) opens a transaction: each save() in
\* them is committed as it is made.
\* ------------------------------------------------------------------------
\* CouponRedemption.add_coupon_redemption, models.py 719-728: the conflict
\* check, then the loop reaches the first item of the coupon's course
CR_Load(p, coupon, o) ==
    /\ pc[p] = "idle"
    /\ UNCHANGED dbvars
    /\ LET i == FirstItemForCourse(DB, ItemsOf(DB, o), Coupons[coupon].course_id)
       IN IF \E k \in CouponRedemptionsOf(DB, o, orders[o].user) :
                 CouponConflict(DB, couponRedemptions[k], coupon)
          THEN Return(p, "add_coupon_redemption", "MultipleCouponsNotAllowedException")
          ELSE IF i = 0
          THEN Return(p, "add_coupon_redemption", "ok")
          ELSE /\ UNCHANGED last
               /\ Goto(p, "cr_insert", [coupon |-> coupon, order |-> o,
                                        all |-> items, item |-> i])

\* models.py 729-730
CR_Insert(p) ==
    /\ pc[p] = "cr_insert"
    /\ Len(couponRedemptions) < MaxRedemptions
    /\ couponRedemptions' = Append(couponRedemptions,
                                   [order |-> loc[p].order,
                                    user |-> orders[loc[p].order].user,
                                    coupon |-> loc[p].coupon])
    /\ UNCHANGED <<orders, items, codes, regRedemptions, outbox, enroll, courses, cbRuns, last>>
    /\ Goto(p, "cr_save", loc[p])

\* models.py 731-738
CR_Save(p) ==
    /\ pc[p] = "cr_save"
    /\ LET i == loc[p].item
           it == loc[p].all[i]
       IN items' = [items EXCEPT ![i] =
                       [it EXCEPT !.list_price = it.unit_cost,
                                  !.unit_cost =
                                      get_discount_price(
                                          Coupons[loc[p].coupon].percentage_discount,
                                          it.unit_cost)]]
    /\ UNCHANGED <<orders, codes, regRedemptions, couponRedemptions, outbox, enroll, courses, cbRuns>>
    /\ Return(p, "add_coupon_redemption", "ok")

NextDiscountCrash ==
    \/ \E u \in Shoppers : Idle /\ GetCart(u)
    \/ \E o \in Carts, c \in Courses : Idle /\ AddSeat(o, c)
    \/ \E c \in OnSale : Idle /\ GenerateInvoiceCode("u1", c)
    \/ \E code \in CodeIds, o \in Carts : RC_Load(Worker, code, o)
    \/ RC_Check(Worker)
    \/ RC_Insert(Worker)
    \/ RC_Save(Worker)
    \/ \E k \in CouponIds, o \in Carts : CR_Load(Worker, k, o)
    \/ CR_Insert(Worker)
    \/ CR_Save(Worker)
    \/ Crash(Worker)

SpecDiscountCrash == Init /\ [][NextDiscountCrash]_vars

\* C34: when add_coupon_redemption or add_reg_code_redemption has been
\* interrupted, the committed tables hold no redemption whose item has not
\* had its price changed and no changed price without a redemption: an item
\* has its list_price set exactly when a redemption recorded on its order is
\* for its course.
C34_DiscountAtomic ==
    (/\ last.op \in {"add_coupon_redemption", "add_reg_code_redemption"}
     /\ last.err = "crash")
       => \A i \in LiveItems :
             (CouponDiscounted(i) \/ CodeDiscounted(i)) <=> items[i].list_price # NoneVal

\* ------------------------------------------------------------------------
\* The reclassification pass and the fulfilment callbacks of one purchase
\* ------------------------------------------------------------------------
\* the number of callback runs recorded for item row i before the step
RunsBefore(i) == IF i <= Len(cbRuns) THEN cbRuns[i] ELSE 0

\* C35: in a purchase that succeeds on a business order, the one in which
\* the reclassification pass runs, each replaced item is replaced by exactly
\* one new item, purchased_callback runs exactly once for every item the
\* order holds after the pass, and it does not run for an item the pass
\* deleted.
C35_CallbackOncePerRemainingItem ==
    [][\A o \in OrderIds(DB) :
         (/\ last'.op = "purchase"
          /\ last'.err = "ok"
          /\ orders[o].order_type = BUSINESS
          /\ BulkPurchase(o)) =>
            LET gone == ItemsOf(DB, o) \ ItemsAfter(o)
                new == ItemsAfter(o) \ ItemsOf(DB, o)
            IN /\ Cardinality(new) = Cardinality(gone)
               /\ Len(items') = Len(items) + Cardinality(gone)
               /\ \A j \in ItemsAfter(o) : cbRuns'[j] = RunsBefore(j) + 1
               /\ \A i \in gone : items'[i].deleted /\ cbRuns'[i] = cbRuns[i]
               /\ \A i \in 1..Len(items) : items[i].deleted => cbRuns'[i] = cbRuns[i]]_vars

\* C35 witness: a purchased business order holds an item that was there
\* before the pass and a bundle of quantity 1 that the pass put in the place
\* of a deleted seat; the callback has run once for each of the two and not
\* for the deleted row.
C35_Witness ==
    /\ last = [op |-> "purchase", err |-> "ok"]
    /\ \E o \in OrderIds(DB), i, j, k \in 1..Len(items) :
          /\ orders[o].order_type = BUSINESS
          /\ orders[o].status = "purchased"
          /\ i < j /\ j < k
          /\ items[i].deleted /\ cbRuns[i] = 0
          /\ {j, k} \subseteq ItemsOf(DB, o)
          /\ items[j].kind = BUNDLE /\ items[j].qty > 1 /\ cbRuns[j] = 1
          /\ items[k].kind = BUNDLE /\ items[k].qty = 1 /\ cbRuns[k] = 1

\* ------------------------------------------------------------------------
\* The reclassification pass on a cart whose prices were lowered by a coupon
\* ------------------------------------------------------------------------
NextReprice ==
    \/ \E u \in Shoppers : BulkGetCart(u)
    \/ \E o \in Carts, c \in Courses : BulkAddSeat(o, c)
    \/ \E o \in Carts, c \in Courses, q \in 1..MaxQty : BulkAddBundle(o, c, q)
    \/ \E k \in CouponIds, o \in Carts : AddCouponRedemption(k, o)
    \/ \E o \in Carts : BulkUpdateOrderType(o)

SpecReprice == Init /\ [][NextReprice]_vars

RECURSIVE RowsCost(_, _, _)
\* the sum of qty * unit_cost over the first n rows of the item table rows
\* that are items of order o
RowsCost(rows, o, n) ==
    IF n = 0 THEN 0
    ELSE RowsCost(rows, o, n - 1) +
         IF ~rows[n].deleted /\ rows[n].order = o
         THEN rows[n].qty * rows[n].unit_cost
         ELSE 0

\* C36: update_order_type leaves the sum of qty * unit_cost over the items
\* of the order as it was, and every item it deletes has a replacement of
\* the same course, quantity, unit_cost and list_price.
C36_PassPreservesTotal ==
    [][\A o \in Carts :
         (/\ last'.op = "update_order_type"
          /\ last'.err = "ok"
          /\ BulkUpdateOrderType(o)) =>
            /\ RowsCost(items', o, Len(items')) = RowsCost(items, o, Len(items))
            /\ \A i \in ItemsOf(DB, o) \ ItemsAfter(o) :
                  \E j \in ItemsAfter(o) \ ItemsOf(DB, o) :
                     /\ items'[j].course_id = items[i].course_id
                     /\ items'[j].qty = items[i].qty
                     /\ items'[j].unit_cost = items[i].unit_cost
                     /\ items'[j].list_price = items[i].list_price]_vars

\* ------------------------------------------------------------------------
\* list_price after several discounts
\* ------------------------------------------------------------------------
\* the unit_cost add_to_order gave item i, every item being added at the
\* price of the default mode of its course (lines 803-809)
OriginalCost(i) == ModeForCourse(items[i].course_id, "honor").min_price

\* C37: whatever discounts were applied to a cart item, and in whatever
\* order, its list_price when set is the unit_cost it was added with and its
\* unit_cost is not above its list_price.
C37_ListPriceIsOriginal ==
    \A i \in LiveItems :
        items[i].list_price # NoneVal =>
            /\ items[i].list_price = OriginalCost(i)
            /\ items[i].unit_cost <= items[i].list_price

\* ------------------------------------------------------------------------
\* reset_cart_items_prices after one discount
\* ------------------------------------------------------------------------
\* C38 as stated: reset_cart_items_prices leaves every item of the order
\* that had a list_price at its original unit_cost with the list_price
\* unset, whatever the price, and every other item as it was.
C38_ResetUndoesDiscount ==
    [][\A o \in OrderIds(DB) :
         (/\ last'.op = "reset_cart_items_prices"
          /\ ResetCartItemsPrices(o)) =>
            \A i \in ItemsOf(DB, o) :
               IF items[i].list_price # NoneVal
               THEN /\ items'[i].unit_cost = OriginalCost(i)
                    /\ items'[i].list_price = NoneVal
               ELSE items'[i] = items[i]]_vars

\* C38 amended: reset_cart_items_prices puts every item of the order whose
\* list_price is set and not 0 back to its original unit_cost, which is that
\* list_price, and unsets the list_price.  An item whose list_price is 0 (an
\* item of original unit_cost 0 that was discounted) is left as it is, its
\* unit_cost 0 and its list_price 0; so is an item without list_price, and
\* every item of another order.  A second call changes nothing.
C38_ResetUndoesNonZeroDiscount ==
    [][\A o \in OrderIds(DB) :
         (/\ last'.op = "reset_cart_items_prices"
          /\ ResetCartItemsPrices(o)) =>
            /\ \A i \in ItemsOf(DB, o) :
                  /\ items[i].list_price # NoneVal => items'[i].unit_cost = OriginalCost(i)
                  /\ IF items[i].list_price \notin {NoneVal, 0}
                     THEN /\ items'[i].unit_cost = items[i].list_price
                          /\ items'[i].list_price = NoneVal
                          /\ [items'[i] EXCEPT !.unit_cost = 0, !.list_price = 0]
                                = [items[i] EXCEPT !.unit_cost = 0, !.list_price = 0]
                     ELSE items'[i] = items[i]
            /\ \A i \in 1..Len(items) : i \notin ItemsOf(DB, o) => items'[i] = items[i]
            /\ Len(items') = Len(items)
            /\ reset_cart_items_prices(DBAfter, o).items = items'
            /\ UNCHANGED <<orders, codes, regRedemptions, couponRedemptions, enroll>>]_vars

\* C38 witness: the prices of a cart were reset after a registration code
\* had been redeemed on it: the redemption is still recorded and the item is
\* back at its price, without list_price
C38_Witness ==
    /\ last = [op |-> "reset_cart_items_prices", err |-> "ok"]
    /\ \E k \in 1..Len(regRedemptions) :
          \E i \in ItemsOf(DB, regRedemptions[k].order) :
             /\ items[i].course_id = codes[regRedemptions[k].registration_code].course_id
             /\ items[i].list_price = NoneVal
             /\ items[i].unit_cost = OriginalCost(i)
             /\ items[i].unit_cost > 0

\* C38 witness: the prices of a cart were reset and an item of price 0 that
\* a coupon had discounted keeps its list_price of 0
C38_WitnessZero ==
    /\ last = [op |-> "reset_cart_items_prices", err |-> "ok"]
    /\ \E i \in LiveItems : items[i].list_price = 0 /\ items[i].unit_cost = 0

\* ------------------------------------------------------------------------
\* fulfilled_time of purchased items
\* ------------------------------------------------------------------------
\* C39: every item whose status is 'purchased' has its fulfilled_time set.
C39_PurchasedItemsAreFulfilled ==
    \A i \in LiveItems : items[i].status = "purchased" => items[i].fulfilled_time # 0

\* ------------------------------------------------------------------------
\* Items left behind by a callback that raised
\* ------------------------------------------------------------------------
\* item i is not purchased and its order is
Stranded(i) ==
    /\ ~items[i].deleted
    /\ items[i].status # "purchased"
    /\ orders[items[i].order].status = "purchased"

\* C40: an item that is not 'purchased' while its order is stays as it is
\* through every later purchase and start_purchase call: the call changes no
\* field of the item and does not run its callback.
C40_StrandedItemStays ==
    [][last'.op \in {"purchase", "purchase.again", "start_purchase"} =>
         \A i \in 1..Len(items) :
            Stranded(i) => /\ items'[i] = items[i]
                           /\ cbRuns'[i] = cbRuns[i]
                           /\ orders'[items[i].order] = orders[items[i].order]]_vars

\* C40 witness: purchase was called again on a purchased order that holds an
\* item left in 'cart' by a callback that raised
C40_Witness ==
    /\ last = [op |-> "purchase.again", err |-> "ok"]
    /\ \E i \in LiveItems : Stranded(i) /\ items[i].status = "cart" /\ cbRuns[i] = 0

\* C40 witness: start_purchase was called on such an order
C40_WitnessStart ==
    /\ last = [op |-> "start_purchase", err |-> "ok"]
    /\ \E i \in LiveItems : Stranded(i) /\ items[i].status = "cart" /\ cbRuns[i] = 0

====
